---- MODULE Spec2Model ----
(***************************************************************************)
(* Verification model of the annotation plugin: the selection geometry of  *)
(* Crawler (frame, gapFrame, overlapFrames), the helpers of Tools          *)
(* (getPositionOnArtboard, getRelativeIndex, updateArray), the spacing     *)
(* scale (retrieveSpacingValue), the placement of an annotation            *)
(* (positionAnnotation), the annotation ledger kept by Painter in the      *)
(* document settings and the migrations Housekeeper runs on a document.    *)
(*                                                                         *)
(* Conventions.  A JavaScript value that may be null is a sequence: <<>>   *)
(* is null and <<v>> is the number v.  A field whose name ends in 2 holds  *)
(* twice the JavaScript number (x2 = 2 * x), so that the halves the code   *)
(* produces with "/ 2" stay integers; comparisons are scaled accordingly.  *)
(***************************************************************************)
EXTENDS Integers, Sequences, FiniteSets, TLC

VARIABLES
  selection,      \* Crawler.array: the selected layers
  crawlerResult,  \* the last Crawler call and what it returned
  length,         \* the argument of retrieveSpacingValue
  spacingValue,   \* what retrieveSpacingValue returned
  placeInput,     \* the arguments of positionAnnotation
  placed,         \* the group positionAnnotation produced
  layers,         \* the layers the plugin created that still exist, back to front
  nextId,         \* the next layer id the host hands out
  settings,       \* Settings.documentSettingForKey(document, PLUGIN_IDENTIFIER)
  history         \* the Painter calls made so far, most recent last

vars == <<selection, crawlerResult, length, spacingValue, placeInput, placed,
          layers, nextId, settings, history>>

crawlerVars == <<selection, crawlerResult>>
spacingVars == <<length, spacingValue>>
placeVars == <<placeInput, placed>>
painterVars == <<layers, nextId, settings, history>>

\* a JavaScript null where an object (a frame, a layer) is expected
null == [null |-> TRUE]

\* the largest local coordinate of a selected layer
MaxCoord == 1

\* the largest width and height of a selected layer
MaxSize == 2

-----------------------------------------------------------------------------
(* Tools *)

\* the walk of getPositionOnArtboard stopping after the nearest parent
ParentOffsetOneLevel(parents, axis) ==
  IF parents = <<>> THEN 0
  ELSE IF Head(parents).name # "" /\ Head(parents).type # "Artboard"
       THEN Head(parents)[axis]
       ELSE 0

RECURSIVE ParentOffset(_, _)
\* the while loop of getPositionOnArtboard: the offsets of the ancestors up
\* to, and without, the first artboard
ParentOffset(parents, axis) ==
  IF parents = <<>> THEN 0
  ELSE IF Head(parents).name # "" /\ Head(parents).type # "Artboard"
       THEN Head(parents)[axis] + ParentOffset(Tail(parents), axis)
       ELSE 0

getPositionOnArtboard(layer) ==
  IF layer.type = "Artboard"
  THEN [x |-> 0, y |-> 0]
  ELSE [x |-> layer.x + ParentOffset(layer.parents, "x"),
        y |-> layer.y + ParentOffset(layer.parents, "y")]

\* the number of decimal digits of a non-negative index below 100
Digits(n) == IF n < 10 THEN 1 ELSE 2

RECURSIVE OuterGroupIndex(_, _)
\* the while loop of getRelativeIndex: the index of the last Group met on the
\* way up, <<>> when the immediate parent is no Group
OuterGroupIndex(parents, found) ==
  IF parents # <<>> /\ Head(parents).type = "Group"
  THEN OuterGroupIndex(Tail(parents), <<Head(parents).index>>)
  ELSE found

\* getRelativeIndex, as one hundred times the JavaScript number:
\* parseFloat(`${g}.${i}`) is g + i / 10^Digits(i)
getRelativeIndex(layer) ==
  IF layer.type = "Artboard"
  THEN (0 - (layer.index + 1)) * 100
  ELSE LET parentGroupIndex == OuterGroupIndex(layer.parents, <<>>)
       IN IF parentGroupIndex # <<>>
          THEN parentGroupIndex[1] * 100
               + (IF Digits(layer.index) = 1 THEN layer.index * 10 ELSE layer.index)
          ELSE layer.index * 100

-----------------------------------------------------------------------------
(* Crawler *)

RECURSIVE Flatten(_)
\* Crawler.all: groups and artboards of the selection are replaced by the
\* layers inside them
Flatten(array) ==
  IF array = <<>> THEN <<>>
  ELSE LET layer == Head(array)
       IN (IF layer.type \in {"Group", "Artboard"}
           THEN SelectSeq(layer.children,
                          LAMBDA inner : inner.type \notin {"Group", "Artboard"})
           ELSE <<layer>>) \o Flatten(Tail(array))

\* !v of JavaScript for a number that may be null
Falsy(v) == v = <<>> \/ v = <<0>>

\* one turn of the forEach of Crawler.frame
FrameStep(acc, layer) ==
  LET layerX == getPositionOnArtboard(layer).x
      layerY == getPositionOnArtboard(layer).y
      layerOuterX == layerX + layer.width
      layerOuterY == layerY + layer.height
  IN [x |-> IF Falsy(acc.x) \/ acc.x[1] > layerX THEN <<layerX>> ELSE acc.x,
      y |-> IF Falsy(acc.y) \/ acc.y[1] > layerY THEN <<layerY>> ELSE acc.y,
      outerX |-> IF layerOuterX > acc.outerX THEN layerOuterX ELSE acc.outerX,
      outerY |-> IF layerOuterY > acc.outerY THEN layerOuterY ELSE acc.outerY]

RECURSIVE FrameFold(_, _)
FrameFold(acc, array) ==
  IF array = <<>> THEN acc
  ELSE FrameFold(FrameStep(acc, Head(array)), Tail(array))

\* Crawler.frame over a non-empty selection
frame(array) ==
  LET acc == FrameFold([x |-> <<>>, y |-> <<>>, outerX |-> 0, outerY |-> 0],
                       Flatten(array))
  IN [x |-> acc.x[1],
      y |-> acc.y[1],
      width |-> acc.outerX - acc.x[1],
      height |-> acc.outerY - acc.y[1]]

\* the comparison of gapFrame always taking the greater start and the lesser end
BandOfIntersection(aLow, aHigh, bLow, bHigh) ==
  <<IF bLow >= aLow THEN bLow ELSE aLow, IF bHigh >= aHigh THEN aHigh ELSE bHigh>>

\* the six-way comparison of gapFrame: the band [first edge, second edge] of
\* two extents A = [aLow, aHigh] and B = [bLow, bHigh] on the axis across the gap
Band(aLow, aHigh, bLow, bHigh) ==
  IF bLow >= aLow
  THEN IF aHigh >= bLow
       THEN IF bHigh >= aHigh
            THEN <<bLow, aHigh>>
            ELSE <<bLow, bHigh>>
       ELSE <<aHigh, bLow>>
  ELSE IF bHigh >= aLow
       THEN IF aHigh >= bHigh
            THEN <<aLow, bHigh>>
            ELSE <<aLow, aHigh>>
       ELSE <<bHigh, aLow>>

RECURSIVE Extremes(_, _, _, _)
\* the forEach loops of gapFrame: layerA becomes a layer of least position on
\* the axis and layerB one of greatest position, starting from given layers
Extremes(array, layerA, layerB, axis) ==
  IF array = <<>> THEN <<layerA, layerB>>
  ELSE LET layer == Head(array)
           pos == getPositionOnArtboard(layer)[axis]
           newA == IF pos < getPositionOnArtboard(layerA)[axis] THEN layer ELSE layerA
           newB == IF pos > getPositionOnArtboard(layerB)[axis] THEN layer ELSE layerB
       IN Extremes(Tail(array), newA, newB, axis)

\* the frame gapFrame holds before its final test, with x and y doubled;
\* x2 = <<>> is the initial null
gapFrameRaw(array) ==
  LET aPos(l) == getPositionOnArtboard(l)
      lr == Extremes(array, array[1], array[1], "x")
      layerA == lr[1]
      layerB == lr[2]
      untouched == [x2 |-> <<>>, y2 |-> <<>>, width |-> 0, height |-> 0,
                    orientation |-> "vertical", layerAId |-> "", layerBId |-> ""]
  IN IF aPos(layerA).x + layerA.width < aPos(layerB).x
     THEN LET leftEdgeX == aPos(layerA).x + layerA.width
              rightEdgeX == aPos(layerB).x
              band == Band(aPos(layerA).y, aPos(layerA).y + layerA.height,
                           aPos(layerB).y, aPos(layerB).y + layerB.height)
              topEdgeY == band[1]
              bottomEdgeY == band[2]
              frameHeight == bottomEdgeY - topEdgeY
          IN [x2 |-> <<2 * leftEdgeX>>,
              y2 |-> <<2 * topEdgeY + frameHeight>>,
              width |-> rightEdgeX - leftEdgeX,
              height |-> frameHeight,
              orientation |-> "vertical",
              layerAId |-> layerA.id,
              layerBId |-> layerB.id]
     ELSE LET tb == Extremes(array, layerA, layerB, "y")
              layerT == tb[1]
              layerU == tb[2]
          IN IF aPos(layerT).y + layerT.height < aPos(layerU).y
             THEN LET topEdgeY == aPos(layerT).y + layerT.height
                      bottomEdgeY == aPos(layerU).y
                      band == Band(aPos(layerT).x, aPos(layerT).x + layerT.width,
                                   aPos(layerU).x, aPos(layerU).x + layerU.width)
                      leftEdgeX == band[1]
                      rightEdgeX == band[2]
                      frameWidth == rightEdgeX - leftEdgeX
                  IN [x2 |-> <<2 * leftEdgeX + frameWidth>>,
                      y2 |-> <<2 * topEdgeY>>,
                      width |-> frameWidth,
                      height |-> bottomEdgeY - topEdgeY,
                      orientation |-> "horizontal",
                      layerAId |-> layerT.id,
                      layerBId |-> layerU.id]
             ELSE untouched

\* Crawler.gapFrame over a non-empty selection
gapFrame(array) ==
  LET theFrame == gapFrameRaw(array)
  IN IF Falsy(theFrame.x2) THEN null ELSE theFrame

\* the forEach loop of overlapFrames never exchanging the two layers
ByIndexKeepingOrder(array, layerA, layerB) == <<layerA, layerB>>

RECURSIVE ByIndex(_, _, _)
\* the forEach loop of overlapFrames: layerA becomes the layer of lowest
\* relative index, layerB the one of highest
ByIndex(array, layerA, layerB) ==
  IF array = <<>> THEN <<layerA, layerB>>
  ELSE LET layer == Head(array)
           layerIndex == getRelativeIndex(layer)
           newB == IF layerIndex > getRelativeIndex(layerB) THEN layer ELSE layerB
           newA == IF layerIndex < getRelativeIndex(layerA) THEN layer ELSE layerA
       IN ByIndex(Tail(array), newA, newB)

\* theFrames with the bottom and right frames measured from the back layer's
\* far edge without taking off the top and left frames
theFramesForgettingNearSide(layerA, layerB) ==
  LET aPos(l) == getPositionOnArtboard(l)
      topHeight == aPos(layerB).y - aPos(layerA).y
      leftWidth == aPos(layerB).x - aPos(layerA).x
  IN [top |-> [x |-> aPos(layerB).x, y |-> aPos(layerA).y,
               width |-> layerB.width, height |-> topHeight,
               orientation |-> "horizontal"],
      bottom |-> [x |-> aPos(layerB).x,
                  y |-> aPos(layerA).y + topHeight + layerB.height,
                  width |-> layerB.width,
                  height |-> layerA.height - layerB.height,
                  orientation |-> "horizontal"],
      right |-> [x |-> aPos(layerB).x + layerB.width, y |-> aPos(layerB).y,
                 width |-> layerA.width - layerB.width,
                 height |-> layerB.height, orientation |-> "vertical"],
      left |-> [x |-> aPos(layerA).x, y |-> aPos(layerB).y,
                width |-> leftWidth, height |-> layerB.height,
                orientation |-> "vertical"],
      layerAId |-> layerA.id,
      layerBId |-> layerB.id]

\* the four frames overlapFrames builds from the back layer A and the front
\* layer B
theFrames(layerA, layerB) ==
  LET aPos(l) == getPositionOnArtboard(l)
      topHeight == aPos(layerB).y - aPos(layerA).y
      leftWidth == aPos(layerB).x - aPos(layerA).x
  IN [top |-> [x |-> aPos(layerB).x,
               y |-> aPos(layerA).y,
               width |-> layerB.width,
               height |-> topHeight,
               orientation |-> "horizontal"],
      bottom |-> [x |-> aPos(layerB).x,
                  y |-> aPos(layerA).y + topHeight + layerB.height,
                  width |-> layerB.width,
                  height |-> layerA.height - topHeight - layerB.height,
                  orientation |-> "horizontal"],
      right |-> [x |-> aPos(layerB).x + layerB.width,
                 y |-> aPos(layerB).y,
                 width |-> layerA.width - layerB.width - leftWidth,
                 height |-> layerB.height,
                 orientation |-> "vertical"],
      left |-> [x |-> aPos(layerA).x,
                y |-> aPos(layerB).y,
                width |-> leftWidth,
                height |-> layerB.height,
                orientation |-> "vertical"],
      layerAId |-> layerA.id,
      layerBId |-> layerB.id]

\* overlapFrames without the test that no gap frame exists
overlapFramesWithoutGapTest(array) ==
  LET ab == ByIndex(array, array[1], array[Len(array)])
  IN IF getRelativeIndex(ab[1]) = getRelativeIndex(ab[2])
     THEN null
     ELSE theFrames(ab[1], ab[2])

\* Crawler.overlapFrames over a non-empty selection
overlapFrames(array) ==
  IF gapFrame(array) # null
  THEN null
  ELSE LET ab == ByIndex(array, array[1], array[Len(array)])
           layerA == ab[1]
           layerB == ab[2]
       IN IF getRelativeIndex(layerA) = getRelativeIndex(layerB)
          THEN null
          ELSE theFrames(layerA, layerB)

-----------------------------------------------------------------------------
(* The selections Crawler is given *)

Artboard == [name |-> "Artboard", type |-> "Artboard", x |-> 0, y |-> 0, index |-> 0]
OuterGroup == [name |-> "Group", type |-> "Group", x |-> 1, y |-> 0, index |-> 1]
NestedGroup == [name |-> "Nested", type |-> "Group", x |-> 0, y |-> 1, index |-> 1]

\* where a selected layer sits: its ancestors, nearest first, and its index
\* among its siblings
Place(parents, index) == [parents |-> parents, index |-> index]

\* the places of the two layers of a selection: both on the artboard in
\* either stacking order, one inside a group, and two layers of one group
\* tree whose relative indexes tie (1.0 and 1.0)
Placements ==
  { <<Place(<<Artboard>>, 0), Place(<<Artboard>>, 2)>>,
    <<Place(<<Artboard>>, 2), Place(<<Artboard>>, 0)>>,
    <<Place(<<Artboard>>, 0), Place(<<OuterGroup, Artboard>>, 0)>>,
    <<Place(<<OuterGroup, Artboard>>, 0), Place(<<NestedGroup, OuterGroup, Artboard>>, 0)>> }

Coords == 0 .. MaxCoord
Sizes == 0 .. MaxSize

Layer(id, place, x, y, width, height) ==
  [id |-> id, type |-> "ShapePath", x |-> x, y |-> y, width |-> width,
   height |-> height, index |-> place.index, parents |-> place.parents,
   children |-> <<>>]

NoCall == [op |-> "none"]

\* every selection of two layers
InitCrawler ==
  /\ \E p \in Placements :
       \E ax \in Coords, ay \in Coords, aw \in Sizes, ah \in Sizes :
         \E bx \in Coords, by \in Coords, bw \in Sizes, bh \in Sizes :
           selection = <<Layer("a", p[1], ax, ay, aw, ah),
                         Layer("b", p[2], bx, by, bw, bh)>>
  /\ crawlerResult = NoCall
  /\ length = 0 /\ spacingValue = NoCall
  /\ placeInput = <<>> /\ placed = NoCall
  /\ layers = <<>> /\ nextId = 1 /\ settings = null /\ history = <<>>

Frame ==
  /\ crawlerResult' = [op |-> "frame", value |-> frame(selection)]
  /\ UNCHANGED <<selection, spacingVars, placeVars, painterVars>>

GapFrame ==
  /\ crawlerResult' = [op |-> "gapFrame", value |-> gapFrame(selection)]
  /\ UNCHANGED <<selection, spacingVars, placeVars, painterVars>>

OverlapFrames ==
  /\ crawlerResult' = [op |-> "overlapFrames", value |-> overlapFrames(selection)]
  /\ UNCHANGED <<selection, spacingVars, placeVars, painterVars>>

\* getPositionOnArtboard for the second selected layer and for an artboard
\* that lies at (3, 4) on its page
GetPositionOnArtboard ==
  /\ \E layer \in {selection[2], [Artboard EXCEPT !.x = 3, !.y = 4]} :
       crawlerResult' = [op |-> "getPositionOnArtboard", layer |-> layer,
                         value |-> getPositionOnArtboard(layer)]
  /\ UNCHANGED <<selection, spacingVars, placeVars, painterVars>>

\* the greatest index of a layer among its siblings
MaxIndex == 10

\* two layers of one group, at any two indexes, on an artboard
InitIndex ==
  /\ \E i \in 0 .. MaxIndex, j \in 0 .. MaxIndex, g \in 0 .. 1, a \in 0 .. 1 :
       LET board == [Artboard EXCEPT !.index = a]
           group == [OuterGroup EXCEPT !.index = g]
       IN selection = <<Layer("a", Place(<<group, board>>, i), 0, 0, 1, 1),
                        Layer("b", Place(<<group, board>>, j), 0, 0, 1, 1)>>
  /\ crawlerResult = NoCall
  /\ length = 0 /\ spacingValue = NoCall
  /\ placeInput = <<>> /\ placed = NoCall
  /\ layers = <<>> /\ nextId = 1 /\ settings = null /\ history = <<>>

\* getRelativeIndex for the two layers and for their artboard
GetRelativeIndex ==
  /\ crawlerResult' =
       [op |-> "getRelativeIndex",
        first |-> getRelativeIndex(selection[1]),
        second |-> getRelativeIndex(selection[2]),
        artboard |-> getRelativeIndex(selection[1].parents[2])]
  /\ UNCHANGED <<selection, spacingVars, placeVars, painterVars>>

-----------------------------------------------------------------------------
(* The spacing scale *)

\* Math.round(n / 4) for an integer n >= 0: halves round up
RoundQuarter(n) == (n + 2) \div 4

\* retrieveSpacingValue with the first breakpoint tested with > for >=
retrieveSpacingValueStrict(len) ==
  IF len > 128 THEN <<>>
  ELSE IF len >= 80 THEN <<9>>
  ELSE IF len >= 56 THEN <<8>>
  ELSE IF len >= 40 THEN <<7>>
  ELSE IF len >= 28 THEN <<6>>
  ELSE IF len >= 20 THEN <<5>>
  ELSE IF len >= 16 THEN <<4>>
  ELSE <<RoundQuarter(len)>>

\* retrieveSpacingValue; <<>> is the null of "above IS-9"
retrieveSpacingValue(len) ==
  IF len >= 128 THEN <<>>
  ELSE IF len >= 80 THEN <<9>>
  ELSE IF len >= 56 THEN <<8>>
  ELSE IF len >= 40 THEN <<7>>
  ELSE IF len >= 28 THEN <<6>>
  ELSE IF len >= 20 THEN <<5>>
  ELSE IF len >= 16 THEN <<4>>
  ELSE <<RoundQuarter(len)>>

\* the greatest length the spacing scale is asked about
MaxLength == 200

InitSpacing ==
  /\ length \in 0 .. MaxLength
  /\ spacingValue = NoCall
  /\ selection = <<>> /\ crawlerResult = NoCall
  /\ placeInput = <<>> /\ placed = NoCall
  /\ layers = <<>> /\ nextId = 1 /\ settings = null /\ history = <<>>

RetrieveSpacingValue ==
  /\ spacingValue' = [op |-> "retrieveSpacingValue", value |-> retrieveSpacingValue(length)]
  /\ UNCHANGED <<length, crawlerVars, placeVars, painterVars>>

-----------------------------------------------------------------------------
(* Building and placing an annotation *)

isMeasurement(annotationType) == annotationType \in {"spacing", "dimension"}

\* buildAnnotation: the rectangle, the diamond and whether a measure icon is
\* built, for a text the host measured textWidth wide
buildAnnotation(textWidth, hasSecondaryText, annotationType) ==
  LET rectTextBuffer == IF hasSecondaryText THEN 22 ELSE 0
      rectHeight == (IF isMeasurement(annotationType) THEN 22 ELSE 30) + rectTextBuffer
      textPadding == IF isMeasurement(annotationType) THEN 6 ELSE 32
      rectangleWidth == textWidth + textPadding
      diamondOffset == IF isMeasurement(annotationType) THEN 19 ELSE 27
  IN [rectangle |-> [x |-> 0, y |-> 0 - rectTextBuffer,
                     width |-> rectangleWidth, height |-> rectHeight],
      diamond |-> [x2 |-> rectangleWidth - 6, y2 |-> 2 * diamondOffset,
                   width |-> 6, height |-> 6],
      icon |-> isMeasurement(annotationType)]

\* positionAnnotation up to the frames it sets on the group and the diamond;
\* relative is getPositionOnArtboard(containerGroup).  All x2, y2 are doubled.
positionAnnotation(relative, annotation, layerFrame, annotationType, orientation) ==
  LET rectangle == annotation.rectangle
      icon == annotation.icon
      artboardWidth == layerFrame.artboardWidth
      artboardHeight == layerFrame.artboardHeight
      layerWidth == layerFrame.width
      layerHeight == layerFrame.height
      layerX2 == layerFrame.x2
      layerY2 == layerFrame.y2
      measurement == isMeasurement(annotationType)
      groupWidth == rectangle.width
      groupHeight == rectangle.height + 4
      \* the switch on orientation
      offsetX == IF orientation = "left" THEN (IF measurement THEN 40 ELSE 38)
                 ELSE IF orientation = "right" THEN (IF measurement THEN 12 ELSE 5)
                 ELSE 0
      offsetY0 == IF orientation \in {"left", "right"} THEN 0
                  ELSE (IF measurement THEN 33 ELSE 38)
      x0 == IF orientation = "left" THEN layerX2 - 2 * offsetX
            ELSE IF orientation = "right" THEN layerX2 + 2 * layerWidth + 2 * offsetX
            ELSE layerX2 + (layerWidth - groupWidth)
      y0 == IF orientation \in {"left", "right"}
            THEN layerY2 + (layerHeight - groupHeight)
            ELSE layerY2 - 2 * offsetY0
      \* correct for left bleed
      leftBleed == x0 < 0
      x1 == IF leftBleed THEN 10 ELSE x0
      \* correct for right bleed
      rightBleed == x1 + 2 * groupWidth > 2 * artboardWidth
      x2 == IF rightBleed
            THEN 2 * (artboardWidth - groupWidth - 3) - (IF icon THEN 6 ELSE 0)
            ELSE x1
      \* correct for top bleed
      topBleed == y0 < 0
      y1 == IF topBleed THEN (IF icon THEN 4 ELSE 10) ELSE y0
      \* correct for bottom bleed
      bottomBleed == y1 > 2 * (artboardHeight - groupHeight)
      offsetY == IF bottomBleed THEN (IF icon THEN 2 ELSE 5) ELSE offsetY0
      y2 == IF bottomBleed THEN 2 * (artboardHeight - groupHeight - offsetY) ELSE y1
      artboardEdge == IF bottomBleed THEN "bottom"
                      ELSE IF topBleed THEN "top"
                      ELSE IF rightBleed THEN "right"
                      ELSE IF leftBleed THEN "left"
                      ELSE "none"
      iconOffsetX2 == IF icon /\ rightBleed THEN x2
                      ELSE IF icon /\ leftBleed THEN x1 ELSE 0
      \* <<>> is the null the bottom correction sets
      iconOffsetY2 == IF icon /\ bottomBleed THEN <<>>
                      ELSE IF icon /\ topBleed THEN <<y1>> ELSE <<0>>
      groupX2 == x2 - 2 * relative.x
      groupY2 == y2 - 2 * relative.y
      \* adjust diamond on horizontal placement
      diamondX2a == IF artboardEdge \in {"left", "right"}
                    THEN (layerX2 - groupX2) + (layerWidth - 6)
                    ELSE annotation.diamond.x2
      \* move diamond to left/right edge
      sideways == orientation \in {"left", "right"}
      diamondX2b == IF orientation = "left"
                    THEN 2 * (rectangle.x + rectangle.width - 3)
                    ELSE IF orientation = "right" THEN 2 * (rectangle.x - 3)
                    ELSE diamondX2a
      diamondY2b == IF sideways
                    THEN 2 * rectangle.y + rectangle.height - 6
                    ELSE annotation.diamond.y2
      \* adjust measurement diamond based on artboard edge
      diamondX2c == IF measurement /\ artboardEdge = "left"
                    THEN annotation.diamond.width
                    ELSE IF measurement /\ artboardEdge = "right"
                    THEN 2 * (rectangle.width - annotation.diamond.width - offsetX - 2)
                    ELSE diamondX2b
      diamondY2c == IF measurement /\ artboardEdge = "bottom"
                    THEN 2 * (rectangle.height - annotation.diamond.height - offsetY)
                    ELSE diamondY2b
  IN [\* icon.remove() on the null icon of a non-measurement annotation
      status |-> IF orientation # "top" /\ ~icon THEN "threw" ELSE "placed",
      artboardEdge |-> artboardEdge,
      group |-> [x2 |-> groupX2,
                 y2 |-> groupY2 + (IF sideways THEN 4 ELSE 0),
                 width |-> groupWidth,
                 height |-> groupHeight],
      diamond |-> [x2 |-> diamondX2c, y2 |-> diamondY2c],
      iconOffsetX2 |-> iconOffsetX2,
      iconOffsetY2 |-> iconOffsetY2]

AnnotationTypes == {"component", "custom", "style", "dimension", "spacing"}
Orientations == {"top", "left", "right"}

\* the room the artboard leaves beside the card, the origins and the sizes
\* of the annotated frame, and the offsets of the container group
Slacks == {0, 4, 300}
Origins == {0, 40, 308}
Extents == {10, 90}
ContainerOffsets == {0, 7}

\* the width the host measures for the annotation text
TextWidth == 24

InitPlace ==
  /\ \E type \in AnnotationTypes, orientation \in Orientations,
        slackX \in Slacks, slackY \in Slacks, x \in Origins, y \in Origins,
        width \in Extents, height \in Extents, offset \in ContainerOffsets :
       LET annotation == buildAnnotation(TextWidth, FALSE, type)
       IN placeInput =
            [relative |-> [x |-> offset, y |-> offset],
             annotation |-> annotation,
             layerFrame |-> [artboardWidth |-> annotation.rectangle.width + slackX,
                             artboardHeight |-> annotation.rectangle.height + 4 + slackY,
                             width |-> width, height |-> height,
                             x2 |-> 2 * x, y2 |-> 2 * y],
             annotationType |-> type,
             orientation |-> orientation]
  /\ placed = NoCall
  /\ selection = <<>> /\ crawlerResult = NoCall
  /\ length = 0 /\ spacingValue = NoCall
  /\ layers = <<>> /\ nextId = 1 /\ settings = null /\ history = <<>>

PositionAnnotation ==
  /\ placed' = [op |-> "positionAnnotation",
                value |-> positionAnnotation(placeInput.relative, placeInput.annotation,
                                             placeInput.layerFrame,
                                             placeInput.annotationType,
                                             placeInput.orientation)]
  /\ UNCHANGED <<placeInput, crawlerVars, spacingVars, painterVars>>

\* positionAnnotation over the annotation types, orientations and frames
SpecPlace ==
  /\ InitPlace
  /\ [][PositionAnnotation]_vars

-----------------------------------------------------------------------------
(* The document: the layers the plugin drew and the settings it persists *)

\* the id the host gives the n-th layer the plugin creates
Id(n) == "g" \o ToString(n)

\* what reading a key that is not set yields
undefined == ""

\* the {} a first write starts from; a ledger that is not set reads as the
\* empty array
EmptySettings ==
  [containerGroups |-> <<>>, annotatedLayers |-> <<>>,
   annotatedDimensions |-> <<>>, annotatedSpacings |-> <<>>]

\* the document as the operators below pass it on
Doc == [layers |-> layers, nextId |-> nextId, settings |-> settings]

\* Array.prototype.slice(start, end), indexes from 0, negative ones counted
\* from the end
Slice(array, start, end) ==
  LET n == Len(array)
      from == IF start < 0 THEN (IF n + start < 0 THEN 0 ELSE n + start)
              ELSE (IF start > n THEN n ELSE start)
      to == IF end < 0 THEN (IF n + end < 0 THEN 0 ELSE n + end)
            ELSE (IF end > n THEN n ELSE end)
  IN SubSeq(array, from + 1, to)

\* Array.prototype.findIndex(foundItem => foundItem.id === id): from 0, -1
\* when no item matches
findIndex(array, id) ==
  LET found == {i \in 1 .. Len(array) : array[i].id = id}
  IN IF found = {} THEN 0 - 1
     ELSE (CHOOSE i \in found : \A j \in found : i <= j) - 1

\* updateArray whose "remove" leaves the array as it is
updateArrayNeverRemoving(key, item, array, action) ==
  IF action = "add" THEN [array EXCEPT ![key] = Append(@, item)] ELSE array

updateArray(key, item, array, action) ==
  IF action = "add"
  THEN [array EXCEPT ![key] = Append(@, item)]
  ELSE IF action = "remove"
  THEN LET itemIndex == findIndex(array[key], item.id)
       IN [array EXCEPT ![key] = Slice(@, 0, itemIndex)
                                 \o Slice(@, itemIndex + 1, Len(@))]
  ELSE array

\* the most items of a ledger at the start, and the most updateArray calls
MaxItems == 3
MaxUpdates == 2

\* the ids of the items of a ledger, and an id no item of a ledger has
ItemIds == {"p", "q"}
AbsentId == "z"

\* the ledgers of at most MaxItems items, each item with its id and the
\* place it had at the start
Ledgers ==
  UNION {[1 .. n -> ItemIds] : n \in 0 .. MaxItems}

\* an annotatedLayers ledger of any items, ids repeated or not
InitArray ==
  /\ \E ids \in Ledgers :
       settings = [EmptySettings EXCEPT
                     !.annotatedLayers = [i \in 1 .. Len(ids) |->
                                            [id |-> ids[i], originalId |-> i]]]
  /\ history = <<>>
  /\ layers = <<>> /\ nextId = 1
  /\ selection = <<>> /\ crawlerResult = NoCall
  /\ length = 0 /\ spacingValue = NoCall
  /\ placeInput = <<>> /\ placed = NoCall

\* updateArray('annotatedLayers', item, settings, action)
UpdateArray ==
  /\ Len(history) < MaxUpdates
  /\ \E id \in ItemIds \cup {AbsentId}, action \in {"add", "remove"} :
       LET item == [id |-> id, originalId |-> 0]
       IN /\ settings' = updateArray("annotatedLayers", item, settings, action)
          /\ history' = Append(history, [op |-> "updateArray", action |-> action,
                                          item |-> item,
                                          array |-> settings.annotatedLayers])
  /\ UNCHANGED <<layers, nextId, crawlerVars, spacingVars, placeVars>>

\* updateArray over the ledgers
SpecArray ==
  /\ InitArray
  /\ [][UpdateArray]_vars

\* getLayerWithID that finds no layer
getLayerWithIDNeverFinding(doc, id) == FALSE

\* whether document.getLayerWithID(id) finds a layer
getLayerWithID(doc, id) ==
  \E i \in 1 .. Len(doc.layers) : doc.layers[i].id = id

RECURSIVE Within(_, _)
\* the ids of the layers that are, or lie inside, the layers with these ids
Within(layerList, ids) ==
  LET more == ids \cup {layerList[i].id : i \in {j \in 1 .. Len(layerList) :
                                                  layerList[j].parent \in ids}}
  IN IF more = ids THEN ids ELSE Within(layerList, more)

\* layer.remove(): the layer and what it holds leave the document
remove(layerList, id) ==
  LET gone == Within(layerList, {id})
      Stays(l) == l.id \notin gone
  IN SelectSeq(layerList, Stays)

\* layerList is kept back to front, so that the order of two siblings is
\* the order in which they appear in it
moveToFront(layerList, id) ==
  LET Moved(l) == l.id = id
      Other(l) == l.id # id
  IN SelectSeq(layerList, Other) \o SelectSeq(layerList, Moved)

\* moveToBack that leaves the layer where it is
moveToBackLeavingOrder(layerList, id) == layerList

moveToBack(layerList, id) ==
  LET Moved(l) == l.id = id
      Other(l) == l.id # id
  IN SelectSeq(layerList, Moved) \o SelectSeq(layerList, Other)

\* new Group({ name, parent, locked }): the new layer goes in front of its
\* siblings; the result holds the document and the id of the new layer
NewGroup(doc, name, parent, locked) ==
  [doc |-> [doc EXCEPT !.layers = Append(@, [id |-> Id(doc.nextId), name |-> name,
                                             parent |-> parent, locked |-> locked]),
                       !.nextId = @ + 1],
   id |-> Id(doc.nextId)]

drawContainerGroup(doc, name, parent, locked) == NewGroup(doc, name, parent, locked)

setGroupName(elementType) ==
  CASE elementType = "boundingBox" -> "Bounding Boxes"
    [] elementType \in {"component", "custom"} -> "Component Annotations"
    [] elementType = "dimension" -> "Dimension Annotations"
    [] elementType = "spacing" -> "Spacing Annotations"
    [] elementType = "style" -> "Foundation Annotations"
    [] OTHER -> "Component Annotations"

setGroupKey(elementType) ==
  CASE elementType = "boundingBox" -> "boundingInnerGroupId"
    [] elementType \in {"component", "custom"} -> "componentInnerGroupId"
    [] elementType = "dimension" -> "dimensionInnerGroupId"
    [] elementType = "spacing" -> "spacingInnerGroupId"
    [] elementType = "style" -> "styleInnerGroupId"
    [] OTHER -> "componentInnerGroupId"

\* the index of the last item of array that passes the test a forEach loop
\* makes before it overwrites what it found; 0 when none passes
LastMatch(array, Test(_)) ==
  LET found == {i \in 1 .. Len(array) : Test(array[i])}
  IN IF found = {} THEN 0 ELSE CHOOSE i \in found : \A j \in found : j <= i

\* Rest applied to value, value being worked out once
Bind(value, Rest(_)) == CHOOSE result \in {Rest(v) : v \in {value}} : TRUE

orderContainerLayers(doc, outerGroupId) ==
  LET containerGroups == doc.settings.containerGroups
      IsSet(groupSet) == groupSet.id = outerGroupId
      at == LastMatch(containerGroups, IsSet)
      idOf(key) == IF at = 0 THEN undefined ELSE containerGroups[at][key]
      Front(layerList, id) ==
        IF getLayerWithID([layers |-> layerList], id)
        THEN moveToFront(layerList, id) ELSE layerList
      Back(layerList, id) ==
        IF getLayerWithID([layers |-> layerList], id)
        THEN moveToBack(layerList, id) ELSE layerList
  IN Bind(Front(doc.layers, idOf("componentInnerGroupId")), LAMBDA component :
     Bind(Back(component, idOf("spacingInnerGroupId")), LAMBDA spacing :
     Bind(Back(spacing, idOf("dimensionInnerGroupId")), LAMBDA dimension :
       [doc EXCEPT !.layers = Back(dimension, idOf("boundingInnerGroupId"))])))

\* createInnerGroup that starts the container set anew
createInnerGroupOfNewSet(doc, outerGroupLayer, containerSet, elementType) ==
  Bind(drawContainerGroup(doc, setGroupName(elementType), outerGroupLayer, FALSE),
       LAMBDA drawn :
         [doc |-> drawn.doc,
          newInnerGroup |-> drawn.id,
          updatedContainerSet |->
            [[key \in DOMAIN containerSet |-> undefined]
               EXCEPT !.artboardId = containerSet.artboardId,
                      !.id = containerSet.id,
                      ![setGroupKey(elementType)] = drawn.id]])

createInnerGroup(doc, outerGroupLayer, containerSet, elementType) ==
  Bind(drawContainerGroup(doc, setGroupName(elementType), outerGroupLayer, FALSE),
       LAMBDA drawn :
         [doc |-> drawn.doc,
          newInnerGroup |-> drawn.id,
          updatedContainerSet |->
            [containerSet EXCEPT ![setGroupKey(elementType)] = drawn.id]])

createOuterGroup(doc, artboard, documentSettings, elementType) ==
  Bind(drawContainerGroup(doc, "+++ Spec'ing +++", artboard.id, TRUE), LAMBDA drawn :
  Bind(createInnerGroup(drawn.doc, drawn.id,
                        [artboardId |-> artboard.id,
                         id |-> drawn.id,
                         boundingInnerGroupId |-> undefined,
                         componentInnerGroupId |-> undefined,
                         dimensionInnerGroupId |-> undefined,
                         spacingInnerGroupId |-> undefined,
                         styleInnerGroupId |-> undefined],
                        elementType), LAMBDA cigResult :
    [doc |-> cigResult.doc,
     newOuterGroup |-> drawn.id,
     newInnerGroup |-> cigResult.newInnerGroup,
     newDocumentSettings |-> updateArray("containerGroups",
                                         cigResult.updatedContainerSet,
                                         documentSettings, "add")]))

\* setContainerGroups for an artboard that exists: the document with the
\* groups found or built, the settings committed and the layers ordered
setContainerGroups(doc, artboard, elementType) ==
  LET groupKey == setGroupKey(elementType)
      documentSettings == doc.settings
      containerGroups == IF documentSettings = null THEN <<>>
                         ELSE documentSettings.containerGroups
      IsPair(outerGroupLookupPair) == outerGroupLookupPair.artboardId = artboard.id
      at == LastMatch(containerGroups, IsPair)
      outerGroupSet == containerGroups[at]
      outerGroupId == IF at = 0 THEN undefined ELSE outerGroupSet.id
      innerGroupId == IF at = 0 THEN undefined ELSE outerGroupSet[groupKey]
      outerGroup == getLayerWithID(doc, outerGroupId)
      innerGroup == getLayerWithID(doc, innerGroupId)
      started == IF documentSettings = null THEN EmptySettings ELSE documentSettings
      purged == IF outerGroupId # undefined
                THEN updateArray("containerGroups", [id |-> outerGroupId], started, "remove")
                ELSE started
      built ==
        IF outerGroup /\ innerGroup
        THEN [doc |-> doc, outer |-> outerGroupId, inner |-> innerGroupId]
        ELSE IF ~outerGroup
        THEN Bind(createOuterGroup(doc, artboard, purged, elementType), LAMBDA cogResult :
               [doc |-> [cogResult.doc EXCEPT !.settings = cogResult.newDocumentSettings],
                outer |-> cogResult.newOuterGroup,
                inner |-> cogResult.newInnerGroup])
        ELSE Bind(createInnerGroup(doc, outerGroupId, outerGroupSet, elementType),
                  LAMBDA cigResult :
               [doc |-> [cigResult.doc EXCEPT !.settings =
                           updateArray("containerGroups", cigResult.updatedContainerSet,
                                       purged, "add")],
                outer |-> outerGroupId,
                inner |-> cigResult.newInnerGroup])
  IN Bind(built, LAMBDA groups :
     Bind([groups.doc EXCEPT !.layers = moveToFront(@, groups.outer)], LAMBDA fronted :
       [doc |-> orderContainerLayers(fronted, groups.outer),
        containerGroup |-> groups.outer,
        innerContainerGroup |-> groups.inner]))

-----------------------------------------------------------------------------
(* Painter *)

\* the constructor: artboard is this.layer.parentArtboard()
Painter(layer) == [layer |-> layer, artboard |-> layer.artboard]

\* what a Painter method hands back; groups are the ids of the annotation
\* groups and boxes the call drew
Result(doc, status, groups) == [doc |-> doc, status |-> status, groups |-> groups]

\* removeAnnotation that leaves the layer on the artboard
removeAnnotationKeepingLayer(layerList, existingItemData) == layerList

removeAnnotation(layerList, existingItemData) ==
  IF getLayerWithID([layers |-> layerList], existingItemData.id)
  THEN remove(layerList, existingItemData.id)
  ELSE layerList

RECURSIVE RemoveOld(_, _, _)
\* the body of the forEach loops that drop the records of an earlier
\* annotation, run over the records that passed the loop's test
RemoveOld(doc, key, layerSets) ==
  IF layerSets = <<>> THEN doc
  ELSE Bind([doc EXCEPT !.layers = removeAnnotation(@, Head(layerSets)),
                        !.settings = updateArray(key, [id |-> Head(layerSets).id],
                                                 @, "remove")],
            LAMBDA rest : RemoveOld(rest, key, Tail(layerSets)))

addAnnotation(doc, painter) ==
  LET layerSettings == painter.layer.layerSettings
      layerId == painter.layer.id
      SameLayer(layerSet) == layerSet.originalId = layerId
  IN IF layerSettings = null \/ layerSettings.annotationText = ""
     THEN Result(doc, "error", <<>>)
     ELSE IF painter.artboard = null
     THEN Result(doc, "error", <<>>)
     ELSE
       Bind(setContainerGroups(doc, painter.artboard, layerSettings.annotationType),
            LAMBDA groups :
       Bind(RemoveOld(groups.doc, "annotatedLayers",
                      SelectSeq(groups.doc.settings.annotatedLayers, SameLayer)),
            LAMBDA cleared :
       Bind(NewGroup(cleared, "Annotation for " \o layerId,
                     groups.innerContainerGroup, FALSE),
            LAMBDA group :
         Result([group.doc EXCEPT !.settings =
                   updateArray("annotatedLayers",
                               [containerGroupId |-> groups.containerGroup,
                                id |-> group.id,
                                originalId |-> layerId],
                               @, "add")],
                "success", <<group.id>>))))

\* addBoundingBox: with no artboard, fromNative(null) in setContainerGroups
\* throws before a layer is drawn or the settings are written
addBoundingBox(doc, painter) ==
  IF painter.artboard = null
  THEN Result(doc, "threw", <<>>)
  ELSE
    Bind(setContainerGroups(doc, painter.artboard, "boundingBox"), LAMBDA groups :
    Bind(NewGroup(groups.doc, "Bounding Box", groups.innerContainerGroup, FALSE),
         LAMBDA boundingBox :
      Result(boundingBox.doc, "success", <<boundingBox.id>>)))

addDimMeasurement(doc, painter) ==
  LET layerId == painter.layer.id
      SameLayer(layerSet) == layerSet.originalId = layerId
  IN IF painter.artboard = null
     THEN Result(doc, "error", <<>>)
     ELSE
       Bind(setContainerGroups(doc, painter.artboard, "dimension"), LAMBDA groups :
       Bind(RemoveOld(groups.doc, "annotatedDimensions",
                      SelectSeq(groups.doc.settings.annotatedDimensions, SameLayer)),
            LAMBDA cleared :
       Bind(NewGroup(cleared, "Dimension Width for layer " \o layerId,
                     groups.innerContainerGroup, FALSE),
            LAMBDA group :
       Bind(NewGroup(group.doc, "Dimension Height for layer " \o layerId,
                     groups.innerContainerGroup, FALSE),
            LAMBDA groupHeight :
         Result([groupHeight.doc EXCEPT !.settings =
                   updateArray("annotatedDimensions",
                               [containerGroupId |-> groups.containerGroup,
                                id |-> groupHeight.id,
                                originalId |-> layerId],
                               updateArray("annotatedDimensions",
                                           [containerGroupId |-> groups.containerGroup,
                                            id |-> group.id,
                                            originalId |-> layerId],
                                           @, "add"),
                               "add")],
                "success", <<group.id, groupHeight.id>>)))))

\* the measurement always using the frame's height
measurementToUseHeight(spacingFrame) == spacingFrame.height

\* the length a spacing frame measures: across the gap
measurementToUse(spacingFrame) ==
  IF spacingFrame.orientation = "vertical"
  THEN spacingFrame.width ELSE spacingFrame.height

\* the test for an earlier record of a spacing frame, without the direction
SamePairAnyDirection(layerSet, spacingFrame) ==
  /\ layerSet.layerAId = spacingFrame.layerAId
  /\ layerSet.layerBId = spacingFrame.layerBId

\* the test for an earlier record of a spacing frame
SamePair(layerSet, spacingFrame) ==
  /\ layerSet.layerAId = spacingFrame.layerAId
  /\ layerSet.layerBId = spacingFrame.layerBId
  /\ layerSet.direction = spacingFrame.direction

\* addSpacingAnnotation for a Painter with an artboard: the document and the
\* ids of the groups drawn so far, with the new group's id added
addSpacingAnnotation(drawn, painter, spacingFrame) ==
  LET theSpacingValue == retrieveSpacingValue(measurementToUse(spacingFrame))
      Earlier(layerSet) == SamePair(layerSet, spacingFrame)
  IN IF Falsy(theSpacingValue)
     THEN drawn
     ELSE
       Bind(setContainerGroups(drawn.doc, painter.artboard, "spacing"), LAMBDA groups :
       Bind(RemoveOld(groups.doc, "annotatedSpacings",
                      SelectSeq(groups.doc.settings.annotatedSpacings, Earlier)),
            LAMBDA cleared :
       Bind(NewGroup(cleared,
                     "Spacing for " \o painter.layer.id
                       \o " (" \o spacingFrame.direction \o ")",
                     groups.innerContainerGroup, FALSE),
            LAMBDA group :
         [doc |-> [group.doc EXCEPT !.settings =
                     updateArray("annotatedSpacings",
                                 [containerGroupId |-> groups.containerGroup,
                                  id |-> group.id,
                                  layerAId |-> spacingFrame.layerAId,
                                  layerBId |-> spacingFrame.layerBId,
                                  direction |-> spacingFrame.direction],
                                 @, "add")],
          groups |-> Append(drawn.groups, group.id)])))

addGapMeasurement(doc, painter, spacingFrame) ==
  IF painter.artboard = null
  THEN Result(doc, "error", <<>>)
  ELSE IF spacingFrame = null
  THEN Result(doc, "error", <<>>)
  ELSE Bind(addSpacingAnnotation(
              [doc |-> doc, groups |-> <<>>], painter,
              [x2 |-> spacingFrame.x2[1], y2 |-> spacingFrame.y2[1],
               width |-> spacingFrame.width, height |-> spacingFrame.height,
               orientation |-> spacingFrame.orientation,
               layerAId |-> spacingFrame.layerAId,
               layerBId |-> spacingFrame.layerBId,
               direction |-> "gap"]),
            LAMBDA drawn : Result(drawn.doc, "success", drawn.groups))

\* the test of addOverlapMeasurements letting a frame 2 wide or high pass
notAnnotatedBelowTwo(overlapFrame) ==
  overlapFrame.width < 2 \/ overlapFrame.height < 2

\* do not annotate if the results are negative, or less than a single IS-X
\* spacing unit
notAnnotated(overlapFrame) ==
  overlapFrame.width <= 2 \/ overlapFrame.height <= 2

RECURSIVE OverlapDirections(_, _, _, _)
\* the forEach loop of addOverlapMeasurements over directions
OverlapDirections(drawn, painter, theOverlapFrames, directions) ==
  IF directions = <<>> THEN drawn
  ELSE LET direction == Head(directions)
           sideways == direction \in {"left", "right"}
           spacingFrame ==
             [x2 |-> IF sideways THEN 2 * theOverlapFrames[direction].x
                     ELSE 2 * theOverlapFrames[direction].x + theOverlapFrames[direction].width,
              y2 |-> IF sideways
                     THEN 2 * theOverlapFrames[direction].y + theOverlapFrames[direction].height
                     ELSE 2 * theOverlapFrames[direction].y,
              width |-> theOverlapFrames[direction].width,
              height |-> theOverlapFrames[direction].height,
              orientation |-> theOverlapFrames[direction].orientation,
              layerAId |-> theOverlapFrames.layerAId,
              layerBId |-> theOverlapFrames.layerBId,
              direction |-> direction]
       IN Bind(IF notAnnotated(theOverlapFrames[direction])
               THEN drawn
               ELSE Bind(spacingFrame, LAMBDA theFrame :
                      addSpacingAnnotation(drawn, painter, theFrame)),
               LAMBDA next :
                 OverlapDirections(next, painter, theOverlapFrames, Tail(directions)))

addOverlapMeasurements(doc, painter, theOverlapFrames) ==
  IF painter.artboard = null
  THEN Result(doc, "error", <<>>)
  ELSE IF theOverlapFrames = null
  THEN Result(doc, "error", <<>>)
  ELSE Bind(OverlapDirections([doc |-> doc, groups |-> <<>>], painter,
                              theOverlapFrames,
                              <<"top", "bottom", "right", "left">>),
            LAMBDA drawn : Result(drawn.doc, "success", drawn.groups))

-----------------------------------------------------------------------------
(* The layers Painter is made for and the frames it is handed *)

UserArtboard == [id |-> "A1"]
OtherArtboard == [id |-> "A2"]

\* two annotated layers of one artboard, an annotated layer outside any
\* artboard, a layer of the artboard that has no annotation text and a
\* layer of a second artboard
Button == [id |-> "L1", artboard |-> UserArtboard,
           layerSettings |-> [annotationText |-> "Button", annotationType |-> "component"]]
Color == [id |-> "L2", artboard |-> UserArtboard,
          layerSettings |-> [annotationText |-> "Blue", annotationType |-> "style"]]
Stray == [id |-> "L3", artboard |-> null,
          layerSettings |-> [annotationText |-> "Stray", annotationType |-> "component"]]
Plain == [id |-> "L4", artboard |-> UserArtboard, layerSettings |-> null]
Remote == [id |-> "L5", artboard |-> OtherArtboard, layerSettings |-> null]

\* selections of L1 and L2: 30 apart (x in [0, 50] and [80, 130]), 128
\* apart, L2 well inside L1, and L2 inside L1 two units from its left and
\* three from its top edge; and L4 40 below L1
Apart == <<Layer("L1", Place(<<Artboard>>, 0), 0, 10, 50, 20),
           Layer("L2", Place(<<Artboard>>, 1), 80, 10, 50, 20)>>
FarApart == <<Layer("L1", Place(<<Artboard>>, 0), 10, 10, 20, 20),
              Layer("L2", Place(<<Artboard>>, 1), 158, 10, 20, 20)>>
Inside == <<Layer("L1", Place(<<Artboard>>, 0), 10, 10, 100, 100),
            Layer("L2", Place(<<Artboard>>, 1), 30, 40, 20, 30)>>
Corner == <<Layer("L1", Place(<<Artboard>>, 0), 10, 10, 100, 100),
            Layer("L2", Place(<<Artboard>>, 1), 12, 13, 20, 30)>>
Below == <<Layer("L1", Place(<<Artboard>>, 0), 10, 10, 20, 20),
           Layer("L4", Place(<<Artboard>>, 2), 10, 70, 20, 20)>>

\* the names of the container groups
ContainerNames ==
  {"+++ Spec'ing +++"} \cup {setGroupName(elementType) : elementType \in
     {"boundingBox", "component", "dimension", "spacing", "style"}}

\* the most steps taken on the document
MaxCalls == 3

InitPainter ==
  /\ layers = <<>> /\ nextId = 1 /\ settings = null /\ history = <<>>
  /\ selection = <<>> /\ crawlerResult = NoCall
  /\ length = 0 /\ spacingValue = NoCall
  /\ placeInput = <<>> /\ placed = NoCall

\* what history keeps of a call: input is the frame or the frames the call
\* was handed, elementType the kind of annotation it draws
Call(op, layer, elementType, input, result) ==
  [op |-> op, layer |-> layer.id, onArtboard |-> layer.artboard # null,
   artboard |-> layer.artboard, elementType |-> elementType, input |-> input,
   status |-> result.status, groups |-> result.groups]

AddAnnotation ==
  /\ Len(history) < MaxCalls
  /\ \E layer \in {Button, Color, Stray, Plain} :
     \E result \in {addAnnotation(Doc, Painter(layer))} :
       /\ layers' = result.doc.layers
       /\ nextId' = result.doc.nextId
       /\ settings' = result.doc.settings
       /\ history' = Append(history,
                            Call("addAnnotation", layer,
                                 IF layer.layerSettings = null THEN undefined
                                 ELSE layer.layerSettings.annotationType,
                                 null, result))
  /\ UNCHANGED <<crawlerVars, spacingVars, placeVars>>

AddBoundingBox ==
  /\ Len(history) < MaxCalls
  /\ \E layer \in {Button, Stray, Remote} :
     \E result \in {addBoundingBox(Doc, Painter(layer))} :
       /\ layers' = result.doc.layers
       /\ nextId' = result.doc.nextId
       /\ settings' = result.doc.settings
       /\ history' = Append(history,
                            Call("addBoundingBox", layer, "boundingBox", null, result))
  /\ UNCHANGED <<crawlerVars, spacingVars, placeVars>>

AddDimMeasurement ==
  /\ Len(history) < MaxCalls
  /\ \E layer \in {Button, Stray} :
     \E result \in {addDimMeasurement(Doc, Painter(layer))} :
       /\ layers' = result.doc.layers
       /\ nextId' = result.doc.nextId
       /\ settings' = result.doc.settings
       /\ history' = Append(history,
                            Call("addDimMeasurement", layer, "dimension", null, result))
  /\ UNCHANGED <<crawlerVars, spacingVars, placeVars>>

AddGapMeasurement ==
  /\ Len(history) < MaxCalls
  /\ \E call \in ({Button} \X {Apart, FarApart, Inside, Below}) \cup ({Stray} \X {Apart}) :
     \E layer \in {call[1]}, spacingFrame \in {gapFrame(call[2])} :
     \E result \in {addGapMeasurement(Doc, Painter(layer), spacingFrame)} :
       /\ layers' = result.doc.layers
       /\ nextId' = result.doc.nextId
       /\ settings' = result.doc.settings
       /\ history' = Append(history,
                            Call("addGapMeasurement", layer, "spacing",
                                 spacingFrame, result))
  /\ UNCHANGED <<crawlerVars, spacingVars, placeVars>>

AddOverlapMeasurements ==
  /\ Len(history) < MaxCalls
  /\ \E call \in ({Button} \X {Inside, Corner, Apart}) \cup ({Stray} \X {Inside}) :
     \E layer \in {call[1]}, theOverlapFrames \in {overlapFrames(call[2])} :
     \E result \in {addOverlapMeasurements(Doc, Painter(layer), theOverlapFrames)} :
       /\ layers' = result.doc.layers
       /\ nextId' = result.doc.nextId
       /\ settings' = result.doc.settings
       /\ history' = Append(history,
                            Call("addOverlapMeasurements", layer, "spacing",
                                 theOverlapFrames, result))
  /\ UNCHANGED <<crawlerVars, spacingVars, placeVars>>

\* the user deletes a container group, with all it holds, from the layer list
DeleteContainerGroup ==
  /\ Len(history) < MaxCalls
  /\ \E i \in 1 .. Len(layers) :
       /\ layers[i].name \in ContainerNames
       /\ layers' = remove(layers, layers[i].id)
       /\ history' = Append(history,
                            [op |-> "deleteContainerGroup", layer |-> layers[i].id,
                             onArtboard |-> TRUE, artboard |-> null,
                             elementType |-> undefined,
                             input |-> null, status |-> "deleted", groups |-> <<>>])
  /\ UNCHANGED <<nextId, settings, crawlerVars, spacingVars, placeVars>>

\* the Painter calls on one document, and the user deleting container groups
SpecPainter ==
  /\ InitPainter
  /\ [][AddAnnotation \/ AddBoundingBox \/ AddDimMeasurement
        \/ AddGapMeasurement \/ AddOverlapMeasurements
        \/ DeleteContainerGroup]_vars

\* the document after addAnnotation and addDimMeasurement for the button: an
\* outer group with a component and a dimension inner group
InitAnnotated ==
  /\ \E first \in {addAnnotation([layers |-> <<>>, nextId |-> 1, settings |-> null],
                                  Painter(Button))} :
     \E second \in {addDimMeasurement(first.doc, Painter(Button))} :
       /\ layers = second.doc.layers
       /\ nextId = second.doc.nextId
       /\ settings = second.doc.settings
  /\ history = <<>>
  /\ selection = <<>> /\ crawlerResult = NoCall
  /\ length = 0 /\ spacingValue = NoCall
  /\ placeInput = <<>> /\ placed = NoCall

\* the Painter calls and the deletions on a document that holds annotations
SpecRepair ==
  /\ InitAnnotated
  /\ [][AddAnnotation \/ AddBoundingBox \/ AddDimMeasurement
        \/ AddGapMeasurement \/ AddOverlapMeasurements
        \/ DeleteContainerGroup]_vars

-----------------------------------------------------------------------------
(* Housekeeper: the migrations of a document *)

\* A timestamp is the sequence of its decimal digits, as the string that
\* Array.prototype.sort compares.
migrationKeys ==
  << <<1, 5, 6, 5, 8, 1, 4, 7, 0, 9, 9, 1, 3>>,
     <<1, 5, 6, 5, 8, 0, 9, 5, 3, 6, 0, 6, 6>>,
     <<1, 5, 6, 3, 9, 5, 1, 6, 0, 0, 0, 0, 0>>,
     <<1, 5, 6, 1, 5, 0, 4, 8, 3, 0, 6, 7, 4>>,
     <<1, 5, 6, 1, 5, 0, 3, 0, 8, 4, 2, 8, 1>> >>

RECURSIVE Before(_, _)
\* the order of two strings of digits by their code units, the default
\* order of sort()
Before(a, b) ==
  IF a = <<>> THEN b # <<>>
  ELSE IF b = <<>> THEN FALSE
  ELSE IF a[1] # b[1] THEN a[1] < b[1]
  ELSE Before(Tail(a), Tail(b))

\* a > b for two numbers written without leading zeros
Greater(a, b) ==
  \/ Len(a) > Len(b)
  \/ Len(a) = Len(b) /\ Before(b, a)

RECURSIVE Insert(_, _)
Insert(key, sorted) ==
  IF sorted = <<>> THEN <<key>>
  ELSE IF Before(key, Head(sorted)) THEN <<key>> \o sorted
  ELSE <<Head(sorted)>> \o Insert(key, Tail(sorted))

\* sort() that leaves the array as it is written
sortLeavingOrder(array) == array

RECURSIVE sort(_)
\* Array.prototype.sort() with no compare function
sort(array) ==
  IF array = <<>> THEN <<>>
  ELSE Insert(array[Len(array)], sort(SubSeq(array, 1, Len(array) - 1)))

\* Array.prototype.includes
includes(array, item) == \E i \in 1 .. Len(array) : array[i] = item

\* the value of a key of an object, undefined when the object has no such key
Field(object, key) == IF key \in DOMAIN object THEN object[key] ELSE undefined

\* initializeMigrationsSchema: the settings with a migrations list
initializeMigrationsSchema(doc) ==
  LET documentSettings == IF doc.settings = null THEN EmptySettings ELSE doc.settings
  IN IF "migrations" \in DOMAIN documentSettings
     THEN doc
     ELSE [doc EXCEPT !.settings =
             [key \in DOMAIN documentSettings \cup {"migrations"} |->
                IF key = "migrations" THEN <<>> ELSE documentSettings[key]]]

\* layer.name.includes('Dimension') for the names of the layers inside a
\* container of measurements
includesDimension(name) ==
  name \in {"Dimension Width for layer L1", "Dimension Height for layer L1",
            "Dimension Width for layer L2", "Dimension Height for layer L2"}

\* The loops of the two migrations of containerGroups work on the entries as
\* objects: objects[i] is the i-th entry as it was read, changed in place,
\* and array.containerGroups is the array of the settings, each place with
\* the id of its entry and the index of the object it refers to.
Entries(documentSettings) ==
  [objects |-> documentSettings.containerGroups,
   array |-> [containerGroups |->
                [i \in 1 .. Len(documentSettings.containerGroups) |->
                   [id |-> documentSettings.containerGroups[i].id, ref |-> i]]]]

\* the array of the settings as it is committed
Committed(objects, array) ==
  [j \in 1 .. Len(array.containerGroups) |-> objects[array.containerGroups[j].ref]]

\* the body of the forEach loop of migration1565814709913 for an entry whose
\* spacing container holds more than one dimension layer
MoveDimensions(moving, i) ==
  LET containerGroup == moving.objects[i]
      spacingId == containerGroup.spacingInnerGroupId
      dimensionId == containerGroup.dimensionInnerGroupId
      found == dimensionId # undefined /\ getLayerWithID(moving.doc, dimensionId)
      IsDimension(l) == l.parent = spacingId /\ includesDimension(l.name)
      Other(l) == ~IsDimension(l)
  IN IF ~found /\ ~getLayerWithID(moving.doc, containerGroup.id)
     \* createInnerGroup reads the frame of an outer group that is not there
     THEN [moving EXCEPT !.threw = TRUE]
     ELSE
       Bind(IF found
            THEN [doc |-> moving.doc, objects |-> moving.objects,
                  array |-> moving.array, dimensionContainer |-> dimensionId]
            ELSE Bind(createInnerGroup(moving.doc, containerGroup.id, containerGroup,
                                       "dimension"),
                      LAMBDA cigResult :
                        [doc |-> cigResult.doc,
                         objects |-> [moving.objects EXCEPT
                                        ![i] = cigResult.updatedContainerSet],
                         array |-> updateArray("containerGroups",
                                               [id |-> containerGroup.id, ref |-> i],
                                               moving.array, "add"),
                         dimensionContainer |-> cigResult.newInnerGroup]),
            LAMBDA with :
       Bind(SelectSeq(with.doc.layers, Other)
              \o [n \in 1 .. Len(SelectSeq(with.doc.layers, IsDimension)) |->
                    [SelectSeq(with.doc.layers, IsDimension)[n]
                       EXCEPT !.parent = with.dimensionContainer]],
            LAMBDA moved :
         LET left == {n \in 1 .. Len(moved) : moved[n].parent = spacingId}
         IN [doc |-> [with.doc EXCEPT !.layers =
                        IF Cardinality(left) = 1 THEN remove(moved, spacingId)
                        ELSE moved],
             objects |-> with.objects,
             array |-> with.array,
             transitioned |-> TRUE,
             \* layers[0].name of a container that holds no layer
             threw |-> Cardinality(left) < 1]))

RECURSIVE SeparateDimensions(_, _)
\* the forEach loop of migration1565814709913 from the i-th entry on
SeparateDimensions(moving, i) ==
  IF i > Len(moving.objects) \/ moving.threw THEN moving
  ELSE LET spacingId == moving.objects[i].spacingInnerGroupId
           dimensionLayers == {n \in 1 .. Len(moving.doc.layers) :
                                 /\ moving.doc.layers[n].parent = spacingId
                                 /\ includesDimension(moving.doc.layers[n].name)}
       IN IF getLayerWithID(moving.doc, spacingId) /\ Cardinality(dimensionLayers) > 1
          THEN Bind(MoveDimensions(moving, i), LAMBDA next :
                 SeparateDimensions(next, i + 1))
          ELSE SeparateDimensions(moving, i + 1)

\* "separate dimensions from spacing"; status "threw" is the TypeError that
\* leaves the method before the settings are committed
migration1565814709913(doc) ==
  Bind(Entries(doc.settings), LAMBDA entries :
  Bind(SeparateDimensions([doc |-> doc, objects |-> entries.objects,
                           array |-> entries.array,
                           transitioned |-> FALSE, threw |-> FALSE], 1),
       LAMBDA done :
    IF done.threw
    THEN [doc |-> done.doc, status |-> "threw"]
    ELSE IF done.transitioned
    THEN [doc |-> [done.doc EXCEPT !.settings.containerGroups =
                     Committed(done.objects, done.array)],
          status |-> "success"]
    ELSE [doc |-> done.doc, status |-> "success"]))

RECURSIVE SeparateMeasurements(_, _, _)
\* the forEach loop of migration1565809536066 from the i-th entry on
SeparateMeasurements(doc, moving, i) ==
  IF i > Len(moving.objects) THEN moving
  ELSE LET containerGroup == moving.objects[i]
           measurementInnerGroupId == Field(containerGroup, "measurementInnerGroupId")
       IN IF getLayerWithID(doc, measurementInnerGroupId)
          THEN Bind([containerGroup EXCEPT
                       !.spacingInnerGroupId = measurementInnerGroupId,
                       !.measurementInnerGroupId = undefined],
                    LAMBDA newContainerGroup :
                 SeparateMeasurements(
                   doc,
                   [objects |-> [moving.objects EXCEPT ![i] = newContainerGroup],
                    array |-> updateArray("containerGroups",
                                          [id |-> newContainerGroup.id, ref |-> i],
                                          updateArray("containerGroups",
                                                      [id |-> containerGroup.id],
                                                      moving.array, "remove"),
                                          "add"),
                    transitioned |-> TRUE],
                   i + 1))
          ELSE SeparateMeasurements(doc, moving, i + 1)

\* "separate measurement types"
migration1565809536066(doc) ==
  Bind(Entries(doc.settings), LAMBDA entries :
  Bind(SeparateMeasurements(doc, [objects |-> entries.objects, array |-> entries.array,
                                  transitioned |-> FALSE], 1),
       LAMBDA done :
    IF done.transitioned
    THEN [doc |-> [doc EXCEPT !.settings.containerGroups =
                     Committed(done.objects, done.array)],
          status |-> "success"]
    ELSE [doc |-> doc, status |-> "success"]))

\* "update colors": the fills of the layers are no part of the document here
migration1563951600000(doc) == [doc |-> doc, status |-> "success"]

RECURSIVE fromPluginToDocument(_, _, _, _, _)
\* fromPluginToDocument up to the document settings: the records of the
\* plugin settings whose two layers are in the document are added under
\* mainKeyToUse unless a record of their id is there
fromPluginToDocument(doc, mainKeyToUse, secondaryKey, records, documentSettings) ==
  IF records = <<>> THEN [documentSettings |-> documentSettings, changed |-> FALSE]
  ELSE LET layerIdSet == Head(records)
       IN IF /\ getLayerWithID(doc, layerIdSet.id)
             /\ getLayerWithID(doc, layerIdSet[secondaryKey])
             /\ findIndex(documentSettings[mainKeyToUse], layerIdSet.id) < 0
          THEN [documentSettings |->
                  fromPluginToDocument(doc, mainKeyToUse, secondaryKey, Tail(records),
                                       [documentSettings EXCEPT ![mainKeyToUse] =
                                          Append(@, layerIdSet)]).documentSettings,
                changed |-> TRUE]
          ELSE fromPluginToDocument(doc, mainKeyToUse, secondaryKey, Tail(records),
                                    documentSettings)

\* the migrations of the settings the plugin once kept for all documents
migrationOfPluginSettings(doc, pluginSettings, mainKey, mainKeyToUse, secondaryKey) ==
  IF pluginSettings = null
  THEN [doc |-> doc, status |-> "success"]
  ELSE Bind(fromPluginToDocument(doc, mainKeyToUse, secondaryKey,
                                 pluginSettings[mainKey], doc.settings),
            LAMBDA settingsToUpdate :
              [doc |-> IF settingsToUpdate.changed
                       THEN [doc EXCEPT !.settings = settingsToUpdate.documentSettings]
                       ELSE doc,
               status |-> "success"])

migration1561504830674(doc, pluginSettings) ==
  migrationOfPluginSettings(doc, pluginSettings, "labeledLayers", "annotatedLayers",
                            "originalId")

migration1561503084281(doc, pluginSettings) ==
  migrationOfPluginSettings(doc, pluginSettings, "containerGroups", "containerGroups",
                            "artboardId")

\* this[`migration${migrationKey}`]()
migration(migrationKey, doc, pluginSettings) ==
  CASE migrationKey = migrationKeys[1] -> migration1565814709913(doc)
    [] migrationKey = migrationKeys[2] -> migration1565809536066(doc)
    [] migrationKey = migrationKeys[3] -> migration1563951600000(doc)
    [] migrationKey = migrationKeys[4] -> migration1561504830674(doc, pluginSettings)
    [] migrationKey = migrationKeys[5] -> migration1561503084281(doc, pluginSettings)

RECURSIVE Migrations(_, _, _, _)
\* the forEach loop of runMigrations over the keys that are left; ran keeps
\* the migrations it executed, and a migration that throws ends the loop
Migrations(running, fileTimestamp, pluginSettings, keys) ==
  IF keys = <<>> \/ running.threw THEN running
  ELSE Bind(Head(keys), LAMBDA migrationKey :
         IF Greater(fileTimestamp, migrationKey)
         THEN Migrations(running, fileTimestamp, pluginSettings, Tail(keys))
         ELSE IF includes(running.doc.settings.migrations, migrationKey)
         THEN Migrations(running, fileTimestamp, pluginSettings, Tail(keys))
         ELSE Bind(migration(migrationKey, running.doc, pluginSettings),
                   LAMBDA migrationResult :
                Bind([doc |-> IF migrationResult.status = "success"
                              THEN [migrationResult.doc EXCEPT !.settings.migrations =
                                      Append(@, migrationKey)]
                              ELSE migrationResult.doc,
                      ran |-> Append(running.ran,
                                     [key |-> migrationKey,
                                      status |-> migrationResult.status]),
                      threw |-> migrationResult.status = "threw"],
                     LAMBDA next :
                       Migrations(next, fileTimestamp, pluginSettings, Tail(keys)))))

runMigrations(doc, fileTimestamp, pluginSettings) ==
  Bind(initializeMigrationsSchema(doc), LAMBDA initialized :
    Migrations([doc |-> initialized, ran |-> <<>>, threw |-> FALSE],
               fileTimestamp, pluginSettings, sort(migrationKeys)))

-----------------------------------------------------------------------------
(* The documents Housekeeper is run on *)

\* the entry of an outer group drawn by a version that kept dimension and
\* spacing annotations in one container of measurements
OldEntry(artboardId, id, measurementId, spacingId, dimensionId) ==
  [artboardId |-> artboardId, id |-> id,
   boundingInnerGroupId |-> undefined, componentInnerGroupId |-> undefined,
   dimensionInnerGroupId |-> dimensionId,
   spacingInnerGroupId |-> spacingId,
   styleInnerGroupId |-> undefined,
   measurementInnerGroupId |-> measurementId]

\* an outer group with a container that holds the two dimension annotations
\* of a layer and some spacing annotations
OldLayers(artboardId, outer, container, layerId, spacings) ==
  << [id |-> outer, name |-> "+++ Spec'ing +++", parent |-> artboardId, locked |-> TRUE],
     [id |-> container, name |-> "Measurement Annotations", parent |-> outer,
      locked |-> FALSE],
     [id |-> container \o "w", name |-> "Dimension Width for layer " \o layerId,
      parent |-> container, locked |-> FALSE],
     [id |-> container \o "h", name |-> "Dimension Height for layer " \o layerId,
      parent |-> container, locked |-> FALSE] >>
  \o [n \in 1 .. spacings |->
        [id |-> container \o "s" \o ToString(n),
         name |-> "Spacing for " \o layerId \o " (gap)",
         parent |-> container, locked |-> FALSE]]

\* the most spacing annotations beside the dimension annotations
MaxSpacings == 2

\* a new document, a document annotated by this version, documents of the
\* older version with 0 to MaxSpacings spacing annotations, one whose
\* dimension container exists already, and one with two artboards
Documents ==
  {[layers |-> <<>>, nextId |-> 1, settings |-> null]}
  \cup {addDimMeasurement(
          addAnnotation([layers |-> <<>>, nextId |-> 1, settings |-> null],
                        Painter(Button)).doc,
          Painter(Button)).doc}
  \cup {[layers |-> OldLayers("A1", "o1", "m1", "L1", spacings),
         nextId |-> 1,
         settings |-> [EmptySettings EXCEPT !.containerGroups =
                         <<OldEntry("A1", "o1", "m1", undefined, undefined)>>]] :
          spacings \in 0 .. MaxSpacings}
  \cup {[layers |-> OldLayers("A1", "o1", "m1", "L1", 1)
                      \o <<[id |-> "d1", name |-> "Dimension Annotations",
                            parent |-> "o1", locked |-> FALSE]>>,
         nextId |-> 1,
         settings |-> [EmptySettings EXCEPT !.containerGroups =
                         <<OldEntry("A1", "o1", undefined, "m1", "d1")>>]]}
  \cup {[layers |-> OldLayers("A1", "o1", "m1", "L1", MaxSpacings)
                      \o OldLayers("A2", "o2", "m2", "L2", MaxSpacings),
         nextId |-> 1,
         settings |-> [EmptySettings EXCEPT !.containerGroups =
                         <<OldEntry("A1", "o1", "m1", undefined, undefined),
                           OldEntry("A2", "o2", "m2", undefined, undefined)>>]]}

\* the migrations list at the start: none, an empty one, and one of the
\* three oldest migrations
StartedWith ==
  {<<>>, <<<<>>>>, <<SubSeq(sort(migrationKeys), 1, 3)>>}

\* the creation of the file: before every migration, at the third, just
\* after the fourth and after the last
FileTimestamps ==
  {<<1, 5, 0, 0, 0, 0, 0, 0, 0, 0, 0, 0, 0>>,
   <<1, 5, 6, 3, 9, 5, 1, 6, 0, 0, 0, 0, 0>>,
   <<1, 5, 6, 5, 8, 0, 9, 5, 3, 6, 0, 6, 7>>,
   <<1, 6, 0, 0, 0, 0, 0, 0, 0, 0, 0, 0, 0>>}

\* the settings of the plugin: none, and the records of another document
PluginSettings ==
  {null,
   [containerGroups |-> <<[id |-> "x1", artboardId |-> "X"]>>,
    labeledLayers |-> <<[id |-> "x2", originalId |-> "x3"]>>]}

\* the most runMigrations calls on a document
MaxRuns == 2

InitKeeper ==
  /\ \E document \in Documents, started \in StartedWith :
       /\ layers = document.layers
       /\ nextId = document.nextId
       /\ settings =
            IF started = <<>> THEN document.settings
            ELSE LET documentSettings == IF document.settings = null
                                         THEN EmptySettings ELSE document.settings
                 IN [key \in DOMAIN documentSettings \cup {"migrations"} |->
                       IF key = "migrations" THEN started[1]
                       ELSE documentSettings[key]]
  /\ history = <<>>
  /\ selection = <<>> /\ crawlerResult = NoCall
  /\ length = 0 /\ spacingValue = NoCall
  /\ placeInput = <<>> /\ placed = NoCall

\* new Housekeeper({ in: document }).runMigrations()
RunMigrations ==
  /\ Len(history) < MaxRuns
  /\ \E fileTimestamp \in FileTimestamps, pluginSettings \in PluginSettings :
     \E result \in {runMigrations(Doc, fileTimestamp, pluginSettings)} :
       /\ layers' = result.doc.layers
       /\ nextId' = result.doc.nextId
       /\ settings' = result.doc.settings
       /\ history' = Append(history,
                            [op |-> "runMigrations", fileTimestamp |-> fileTimestamp,
                             ran |-> result.ran])
  /\ UNCHANGED <<crawlerVars, spacingVars, placeVars>>

\* runMigrations, again and again, on a document
SpecKeeper ==
  /\ InitKeeper
  /\ [][RunMigrations]_vars

-----------------------------------------------------------------------------
(* Two addAnnotation calls that are not run one after the other *)

\* Settings.setDocumentSettingForKey that keeps the records of the settings
\* it replaces
setDocumentSettingForKeyMerging(documentSettings, newDocumentSettings) ==
  IF documentSettings = null THEN newDocumentSettings
  ELSE LET Added(layerSet) ==
             \A i \in 1 .. Len(documentSettings.annotatedLayers) :
               documentSettings.annotatedLayers[i].id # layerSet.id
       IN [newDocumentSettings EXCEPT !.annotatedLayers =
             documentSettings.annotatedLayers \o SelectSeq(@, Added)]

\* Settings.setDocumentSettingForKey(document, PLUGIN_IDENTIFIER, settings):
\* the settings of the document are the settings it is handed
setDocumentSettingForKey(documentSettings, newDocumentSettings) ==
  newDocumentSettings

\* the most addAnnotation calls made on the document
MaxUpserts == 2

\* an empty document, and one with the button annotated
InitRace ==
  /\ \E document \in
          {[layers |-> <<>>, nextId |-> 1, settings |-> null],
           addAnnotation([layers |-> <<>>, nextId |-> 1, settings |-> null],
                         Painter(Button)).doc} :
       /\ layers = document.layers
       /\ nextId = document.nextId
       /\ settings = document.settings
  /\ history = <<>>
  /\ selection = <<>> /\ crawlerResult = NoCall
  /\ length = 0 /\ spacingValue = NoCall
  /\ placeInput = <<>> /\ placed = NoCall

\* addAnnotation up to its last statement but one: setContainerGroups reads
\* and writes the settings, the call reads them again, removes the groups of
\* the records of its layer, draws its group and holds the settings it will
\* write in newDocumentSettings. A call that returns an error is over at
\* once. alone tells that no other call was between its read and its write.
ReadAndDraw ==
  /\ Len(history) < MaxUpserts
  /\ \E layer \in {Button, Color, Stray, Plain} :
     \E result \in {addAnnotation(Doc, Painter(layer))} :
       /\ layers' = result.doc.layers
       /\ nextId' = result.doc.nextId
       /\ settings' =
            IF result.status = "success"
            THEN setContainerGroups(Doc, layer.artboard,
                                    layer.layerSettings.annotationType).doc.settings
            ELSE settings
       /\ history' =
            Append(history,
                   [op |-> "addAnnotation", layer |-> layer.id,
                    status |-> result.status, groups |-> result.groups,
                    position |-> IF result.status = "success" THEN "read"
                                 ELSE "returned",
                    newDocumentSettings |-> result.doc.settings,
                    alone |-> \A n \in 1 .. Len(history) :
                                history[n].position = "returned"])
  /\ UNCHANGED <<crawlerVars, spacingVars, placeVars>>

\* the last statement of addAnnotation: the settings are committed
Commit ==
  /\ \E n \in 1 .. Len(history) :
       /\ history[n].position = "read"
       /\ settings' = setDocumentSettingForKey(settings,
                                               history[n].newDocumentSettings)
       /\ history' = [history EXCEPT ![n].position = "returned"]
  /\ UNCHANGED <<layers, nextId, crawlerVars, spacingVars, placeVars>>

\* addAnnotation calls whose statements are run in any order
SpecRace ==
  /\ InitRace
  /\ [][ReadAndDraw \/ Commit]_vars

-----------------------------------------------------------------------------
(* Specifications *)

\* Crawler over every selection of one or two layers
SpecCrawler ==
  /\ InitCrawler
  /\ [][Frame \/ GapFrame \/ OverlapFrames \/ GetPositionOnArtboard]_vars

\* getRelativeIndex over the indexes of two layers of one group
SpecIndex ==
  /\ InitIndex
  /\ [][GetRelativeIndex]_vars

\* retrieveSpacingValue over every length
SpecSpacing ==
  /\ InitSpacing
  /\ [][RetrieveSpacingValue]_vars

-----------------------------------------------------------------------------
(* Properties of the selection geometry *)

\* the artboard-absolute edges of a selected layer
Left(l) == getPositionOnArtboard(l).x
Top(l) == getPositionOnArtboard(l).y
Right(l) == Left(l) + l.width
Bottom(l) == Top(l) + l.height

SetMin(S) == CHOOSE m \in S : \A n \in S : m <= n
SetMax(S) == CHOOSE m \in S : \A n \in S : m >= n

Elements == { selection[i] : i \in DOMAIN selection }

\* a strict gap between the two selected layers along x, and along y
StrictGapX == \E l \in Elements, r \in Elements : Right(l) < Left(r)
StrictGapY == \E t \in Elements, u \in Elements : Bottom(t) < Top(u)

\* layer c fully contains layer i
Contains(c, i) ==
  /\ Left(c) <= Left(i) /\ Right(i) <= Right(c)
  /\ Top(c) <= Top(i) /\ Bottom(i) <= Bottom(c)

C4_FrameIsBoundingBox ==
  crawlerResult.op = "frame" =>
    LET minX == SetMin({ Left(l) : l \in Elements })
        minY == SetMin({ Top(l) : l \in Elements })
        maxX == SetMax({ Right(l) : l \in Elements })
        maxY == SetMax({ Bottom(l) : l \in Elements })
        reversed == [i \in DOMAIN selection |-> selection[Len(selection) + 1 - i]]
    IN /\ crawlerResult.value =
            [x |-> minX, y |-> minY, width |-> maxX - minX, height |-> maxY - minY]
       /\ frame(reversed) = crawlerResult.value

\* C5: the frame of a selection is at least as wide and as high as the frame
\* of each of its non-empty sub-selections.
C5_FrameMonotone ==
  crawlerResult.op = "frame" =>
    \A sub \in { <<selection[1]>>, <<selection[2]>>, selection } :
      /\ crawlerResult.value.width >= frame(sub).width
      /\ crawlerResult.value.height >= frame(sub).height

\* C8: gapFrame() is non-null exactly when a strict gap exists, vertical when
\* the gap is along x, horizontal when there is none along x and one along y;
\* touching or overlapping layers give null.
C8_GapIffStrictGap ==
  crawlerResult.op = "gapFrame" =>
    LET gap == crawlerResult.value
    IN /\ (gap # null) <=> (StrictGapX \/ StrictGapY)
       /\ (gap # null /\ StrictGapX => gap.orientation = "vertical")
       /\ (gap # null /\ ~StrictGapX => gap.orientation = "horizontal")

\* the sums C9 is about, for container c and inner layer i
SumsTo(frames, c, i) ==
  /\ frames.top.height + i.height + frames.bottom.height = c.height
  /\ frames.left.width + i.width + frames.right.width = c.width

\* C9 as stated: whichever of the two layers contains the other, the heights
\* of top, inner and bottom sum to the container's height and the widths of
\* left, inner and right to its width.
C9_ContainmentSums ==
  crawlerResult.op = "overlapFrames" =>
    \A c \in Elements, i \in Elements :
      (c # i /\ Contains(c, i) /\ getRelativeIndex(c) # getRelativeIndex(i)) =>
        /\ crawlerResult.value # null
        /\ SumsTo(crawlerResult.value, c, i)

\* C9 amended: the sums hold when the containing layer is the back one
\* (lower relative index) and the contained layer the front one.
C9_ContainmentSumsBackContainer ==
  crawlerResult.op = "overlapFrames" =>
    \A c \in Elements, i \in Elements :
      (c # i /\ Contains(c, i) /\ getRelativeIndex(c) < getRelativeIndex(i)) =>
        /\ crawlerResult.value # null
        /\ SumsTo(crawlerResult.value, c, i)

C9_Witness ==
  /\ crawlerResult.op = "overlapFrames"
  /\ crawlerResult.value # null
  /\ \E c \in Elements, i \in Elements :
       /\ Contains(c, i) /\ getRelativeIndex(c) < getRelativeIndex(i)
       /\ Left(c) < Left(i) /\ Right(i) < Right(c)
       /\ Top(c) < Top(i) /\ i.height > 0

-----------------------------------------------------------------------------
(* Properties of the spacing scale *)

\* the breakpoint table of the spacing scale
SpacingTable(len) ==
  IF len >= 128 THEN <<>>
  ELSE IF len \in 80 .. 127 THEN <<9>>
  ELSE IF len \in 56 .. 79 THEN <<8>>
  ELSE IF len \in 40 .. 55 THEN <<7>>
  ELSE IF len \in 28 .. 39 THEN <<6>>
  ELSE IF len \in 20 .. 27 THEN <<5>>
  ELSE IF len \in 16 .. 19 THEN <<4>>
  ELSE IF len % 4 \in {0, 1} THEN <<len \div 4>> ELSE <<len \div 4 + 1>>

\* C6: retrieveSpacingValue follows the breakpoint table on 0..200; 15, 16 and
\* 19 give 4, 20 gives 5, 127 gives 9 and 128 gives null.
C6_SpacingTable ==
  spacingValue # NoCall =>
    /\ spacingValue.value = SpacingTable(length)
    /\ (length \in {15, 16, 19} => spacingValue.value = <<4>>)
    /\ (length = 20 => spacingValue.value = <<5>>)
    /\ (length = 127 => spacingValue.value = <<9>>)
    /\ (length = 128 => spacingValue.value = <<>>)

C6_Witness == length = 127 /\ spacingValue # NoCall /\ spacingValue.value = <<9>>

-----------------------------------------------------------------------------
(* Properties of the placement *)

\* the placed group's origin on the artboard, doubled
PlacedX2 == placed.value.group.x2 + 2 * placeInput.relative.x
PlacedY2 == placed.value.group.y2 + 2 * placeInput.relative.y

\* C7: on an artboard at least as wide as the card and as high as the group,
\* the placed group lies inside the artboard: 0 <= x, x + width <=
\* artboardWidth, 0 <= y and y + height <= artboardHeight
C7_NoBleed ==
  (/\ placed # NoCall
   /\ placed.value.status = "placed"
   /\ placeInput.layerFrame.artboardWidth >= placeInput.annotation.rectangle.width
   /\ placeInput.layerFrame.artboardHeight >= placed.value.group.height)
  => /\ 0 <= PlacedX2
     /\ PlacedX2 + 2 * placed.value.group.width <= 2 * placeInput.layerFrame.artboardWidth
     /\ 0 <= PlacedY2
     /\ PlacedY2 + 2 * placed.value.group.height <= 2 * placeInput.layerFrame.artboardHeight

-----------------------------------------------------------------------------
(* Properties of the ledgers *)

\* the last two calls are successful addAnnotation calls for one layer
AnnotatedTwice ==
  /\ Len(history) >= 2
  /\ LET first == history[Len(history) - 1]
         second == history[Len(history)]
     IN /\ first.op = "addAnnotation" /\ second.op = "addAnnotation"
        /\ first.status = "success" /\ second.status = "success"
        /\ first.layer = second.layer

\* C1: after two addAnnotation calls in a row for one layer on an artboard,
\* annotatedLayers holds exactly one record with that layer's originalId, the
\* record's id is the group the second call drew, and the group the first
\* call drew no longer exists
C1_SecondAnnotationReplacesFirst ==
  AnnotatedTwice =>
    LET first == history[Len(history) - 1]
        second == history[Len(history)]
        Mine(layerSet) == layerSet.originalId = second.layer
        records == SelectSeq(settings.annotatedLayers, Mine)
    IN /\ Len(records) = 1
       /\ records[1].id = second.groups[1]
       /\ getLayerWithID(Doc, second.groups[1])
       /\ ~getLayerWithID(Doc, first.groups[1])

C1_Witness ==
  /\ AnnotatedTwice
  /\ history[Len(history)].groups # history[Len(history) - 1].groups

\* the number of records of a ledger that pass a test
Count(ledger, Test(_)) == Cardinality({i \in 1 .. Len(ledger) : Test(ledger[i])})

\* no key of annotatedLayers or annotatedSpacings has more than one record
LayersAndSpacingsUnique ==
  settings # null =>
    /\ \A i \in 1 .. Len(settings.annotatedLayers) :
         LET SameKey(r) == r.originalId = settings.annotatedLayers[i].originalId
         IN Count(settings.annotatedLayers, SameKey) <= 1
    /\ \A i \in 1 .. Len(settings.annotatedSpacings) :
         LET SameKey(r) == /\ r.layerAId = settings.annotatedSpacings[i].layerAId
                           /\ r.layerBId = settings.annotatedSpacings[i].layerBId
                           /\ r.direction = settings.annotatedSpacings[i].direction
         IN Count(settings.annotatedSpacings, SameKey) <= 1

\* no originalId has more than most records in annotatedDimensions
DimensionsAtMost(most) ==
  settings # null =>
    \A i \in 1 .. Len(settings.annotatedDimensions) :
      LET SameKey(r) == r.originalId = settings.annotatedDimensions[i].originalId
      IN Count(settings.annotatedDimensions, SameKey) <= most

\* C2 as stated: after any sequence of upserts every ledger holds at most
\* one record per key (originalId; layerAId, layerBId and direction)
C2_OneRecordPerKey == LayersAndSpacingsUnique /\ DimensionsAtMost(1)

\* C2 amended: at most one annotatedLayers record per originalId, at most one
\* annotatedSpacings record per (layerAId, layerBId, direction), and at most
\* two annotatedDimensions records per originalId, the width and the height
\* annotation of the layer
C2_OneRecordPerKeyTwoPerDimension == LayersAndSpacingsUnique /\ DimensionsAtMost(2)

\* addDimMeasurement ran twice for one layer among calls that all succeeded
C2_Witness ==
  /\ Len(history) = MaxCalls
  /\ \A i \in 1 .. Len(history) : history[i].status = "success"
  /\ \E i, j \in 1 .. Len(history) :
       /\ i < j
       /\ history[i].op = history[j].op
       /\ history[i].layer = history[j].layer
       /\ history[i].op = "addDimMeasurement"
  /\ Len(settings.annotatedDimensions) = 2

\* C10: a Painter call for a layer with no artboard returns status "error"
\* without throwing, creates no layer and leaves the settings as they were
C10_NoArtboardIsAnError ==
  [][(/\ Len(history') = Len(history) + 1
      /\ ~history'[Len(history')].onArtboard)
     => /\ history'[Len(history')].status = "error"
        /\ layers' = layers
        /\ settings' = settings]_vars

-----------------------------------------------------------------------------
(* Properties of the measurements and the container groups *)

\* the step is a call or a deletion, recorded last in history'
Stepped == Len(history') = Len(history) + 1

\* whether a layer with this id is in the list
Live(layerList, id) == \E i \in 1 .. Len(layerList) : layerList[i].id = id

\* the elements of a sequence
Range(seq) == {seq[i] : i \in 1 .. Len(seq)}

\* C11: an absent gap frame or absent overlap frames handed to
\* addGapMeasurement or addOverlapMeasurements for a layer on an artboard is
\* not answered with status "error"
C11_AbsenceIsNoError ==
  \A i \in 1 .. Len(history) :
    (/\ history[i].op \in {"addGapMeasurement", "addOverlapMeasurements"}
     /\ history[i].onArtboard
     /\ history[i].input = null)
    => history[i].status # "error"

\* the length of the gap a gap frame spans: across x for a vertical frame,
\* across y for a horizontal one
GapLength(gap) == IF gap.orientation = "vertical" THEN gap.width ELSE gap.height

\* the last call is addGapMeasurement, on an artboard, for a gap of 128 or more
OutOfRangeGap(call) ==
  /\ call.op = "addGapMeasurement"
  /\ call.onArtboard
  /\ call.input # null
  /\ GapLength(call.input) >= 128

\* C12: addGapMeasurement for a gap of 128 or more draws no annotation and no
\* container group, leaves the settings as they were and returns "success"
C12_OutOfRangeDrawsNothing ==
  [][(Stepped /\ OutOfRangeGap(history'[Len(history')]))
     => /\ history'[Len(history')].status = "success"
        /\ history'[Len(history')].groups = <<>>
        /\ layers' = layers
        /\ nextId' = nextId
        /\ settings' = settings]_vars

C12_Witness ==
  /\ Len(history) >= 1
  /\ OutOfRangeGap(history[Len(history)])
  /\ history[Len(history)].status = "success"

\* C14: a spacing call replaces the record and the group of each pair and
\* direction it draws, and leaves every other record of annotatedSpacings,
\* and its group, as they were
C14_OtherDirectionsStay ==
  [][(/\ Stepped
      /\ history'[Len(history')].op \in {"addGapMeasurement", "addOverlapMeasurements"}
      /\ settings # null)
     => \A old \in Range(settings.annotatedSpacings) :
          LET drawn == {new \in Range(settings'.annotatedSpacings) :
                          /\ new.id \in Range(history'[Len(history')].groups)
                          /\ new.layerAId = old.layerAId
                          /\ new.layerBId = old.layerBId
                          /\ new.direction = old.direction}
          IN IF drawn # {}
             THEN /\ old \notin Range(settings'.annotatedSpacings)
                  /\ ~Live(layers', old.id)
             ELSE /\ old \in Range(settings'.annotatedSpacings)
                  /\ Live(layers', old.id) = Live(layers, old.id)]_vars

\* an overlap call has redrawn some directions of a pair and left others
C14_Witness ==
  /\ Len(history) >= 2
  /\ history[Len(history)].op = "addOverlapMeasurements"
  /\ history[Len(history) - 1].op = "addOverlapMeasurements"
  /\ history[Len(history)].groups # <<>>
  /\ \E kept, redrawn \in Range(settings.annotatedSpacings) :
       /\ kept.id \in Range(history[Len(history) - 1].groups)
       /\ redrawn.id \in Range(history[Len(history)].groups)
       /\ kept.layerAId = redrawn.layerAId
       /\ kept.layerBId = redrawn.layerBId
       /\ kept.direction # redrawn.direction
       /\ Live(layers, kept.id)
  /\ \E gone \in Range(history[Len(history) - 1].groups) : ~Live(layers, gone)

\* the entries of containerGroups for an artboard
EntriesFor(theSettings, artboardId) ==
  IF theSettings = null THEN {}
  ELSE {i \in 1 .. Len(theSettings.containerGroups) :
          theSettings.containerGroups[i].artboardId = artboardId}

\* the artboard has an entry whose outer group and whose inner group for the
\* element type are both in the document
PairLive(artboardId, elementType) ==
  \E i \in EntriesFor(settings, artboardId) :
    /\ Live(layers, settings.containerGroups[i].id)
    /\ Live(layers, settings.containerGroups[i][setGroupKey(elementType)])

\* C16: containerGroups never holds two entries for one artboard, and a call
\* that finds the outer group and the inner group of its type alive creates
\* no container group and leaves containerGroups as it was
C16_OneEntryPerArtboard ==
  /\ [](\A artboardId \in {UserArtboard.id, OtherArtboard.id} :
          Cardinality(EntriesFor(settings, artboardId)) <= 1)
  /\ [][(/\ Stepped
         /\ history'[Len(history')].artboard # null
         /\ PairLive(history'[Len(history')].artboard.id,
                     history'[Len(history')].elementType))
        => /\ settings'.containerGroups = settings.containerGroups
           /\ \A l \in Range(layers') :
                l.name \in ContainerNames => Live(layers, l.id)]_vars

\* a container group was deleted and the next call drew into a live pair of
\* container groups again
C16_Witness ==
  /\ Len(history) = MaxCalls
  /\ history[Len(history) - 1].op = "deleteContainerGroup"
  /\ history[Len(history)].status = "success"
  /\ history[Len(history)].groups # <<>>
  /\ PairLive(history[Len(history)].artboard.id, history[Len(history)].elementType)
  /\ ~Live(layers, history[Len(history) - 1].layer)

\* the place of an inner container group, counted from the back
Rank(name) ==
  CASE name = "Bounding Boxes" -> 1
    [] name = "Dimension Annotations" -> 2
    [] name = "Spacing Annotations" -> 3
    [] name = "Foundation Annotations" -> 4
    [] name = "Component Annotations" -> 5
    [] OTHER -> 0

\* C17: inside every outer group the inner groups lie, back to front, as
\* bounding boxes, dimension, spacing, style and component annotations
C17_InnerGroupsOrdered ==
  \A i, j \in 1 .. Len(layers) :
    (/\ i < j
     /\ layers[i].parent = layers[j].parent
     /\ Rank(layers[i].name) > 0
     /\ Rank(layers[j].name) > 0)
    => Rank(layers[i].name) < Rank(layers[j].name)

\* the component group was made first, the bounding box group last, and three
\* inner groups share the outer group
C17_Witness ==
  /\ Len(history) >= 3
  /\ history[1].op = "addAnnotation" /\ history[1].layer = "L1"
  /\ history[2].op = "addDimMeasurement" /\ history[2].layer = "L1"
  /\ history[3].op = "addBoundingBox" /\ history[3].layer = "L1"
  /\ Cardinality({i \in 1 .. Len(layers) : Rank(layers[i].name) > 0}) = 3

-----------------------------------------------------------------------------
(* Properties of the frames and the positions *)

\* the two selected layers have the same vertical extent and lie g > 0 apart
\* along x
SameRowGap(l, r) ==
  /\ Top(l) = Top(r) /\ l.height = r.height
  /\ Right(l) < Left(r)

\* C13: for two layers of the same y-range a gap g > 0 apart, gapFrame() is
\* vertical with x the left layer's right edge and width g, and the length
\* the annotation is labelled from is g
C13_SameRowGapFrame ==
  crawlerResult.op = "gapFrame" =>
    \A l \in Elements, r \in Elements :
      SameRowGap(l, r) =>
        LET gap == crawlerResult.value
        IN /\ gap # null
           /\ gap.orientation = "vertical"
           /\ gap.x2 = <<2 * Right(l)>>
           /\ gap.width = Left(r) - Right(l)
           /\ retrieveSpacingValue(measurementToUse(gap))
                = retrieveSpacingValue(Left(r) - Right(l))

\* C15: the frames of frame(), gapFrame() and overlapFrames() have width >= 0
\* and height >= 0
C15_SizesNotNegative ==
  /\ crawlerResult.op \in {"frame", "gapFrame"} /\ crawlerResult.value # null
     => crawlerResult.value.width >= 0 /\ crawlerResult.value.height >= 0
  /\ crawlerResult.op = "overlapFrames" /\ crawlerResult.value # null
     => \A side \in {"top", "bottom", "left", "right"} :
          /\ crawlerResult.value[side].width >= 0
          /\ crawlerResult.value[side].height >= 0

RECURSIVE GroupOrigins(_, _)
\* the sum of the local origins of the groups among the ancestors
GroupOrigins(parents, axis) ==
  IF parents = <<>> THEN 0
  ELSE (IF Head(parents).type = "Group" THEN Head(parents)[axis] ELSE 0)
       + GroupOrigins(Tail(parents), axis)

\* C18: getPositionOnArtboard is (0, 0) for an artboard, and for a layer under
\* an artboard its local origin plus the local origins of its ancestor groups
C18_PositionOnArtboard ==
  crawlerResult.op = "getPositionOnArtboard" =>
    LET layer == crawlerResult.layer
    IN IF layer.type = "Artboard"
       THEN crawlerResult.value = [x |-> 0, y |-> 0]
       ELSE crawlerResult.value =
              [x |-> layer.x + GroupOrigins(layer.parents, "x"),
               y |-> layer.y + GroupOrigins(layer.parents, "y")]

\* the position of a layer inside two groups that differs from its origin
C18_Witness ==
  /\ crawlerResult.op = "getPositionOnArtboard"
  /\ crawlerResult.layer.type # "Artboard"
  /\ Len(crawlerResult.layer.parents) = 3
  /\ crawlerResult.value.x = crawlerResult.layer.x + 1
  /\ crawlerResult.value.y = crawlerResult.layer.y + 1

\* the band of two extents: what they share when they overlap or touch, what
\* lies between them otherwise
SharedBand(aLow, aHigh, bLow, bHigh) ==
  LET low == IF aLow >= bLow THEN aLow ELSE bLow
      high == IF aHigh <= bHigh THEN aHigh ELSE bHigh
  IN IF low <= high THEN <<low, high>> ELSE <<high, low>>

\* C20: a vertical gap frame for left-most A and right-most B has
\* x = A's right edge, width = B's left edge less that, height = the length of
\* the band of the two vertical extents and y = the band's middle; a
\* horizontal one is its mirror image
C20_GapFrameGeometry ==
  (crawlerResult.op = "gapFrame" /\ crawlerResult.value # null) =>
    LET gap == crawlerResult.value
    IN \E A \in Elements, B \in Elements :
         IF gap.orientation = "vertical"
         THEN LET band == SharedBand(Top(A), Bottom(A), Top(B), Bottom(B))
              IN /\ Left(A) < Left(B)
                 /\ gap.x2 = <<2 * Right(A)>>
                 /\ gap.width = Left(B) - Right(A)
                 /\ gap.height = band[2] - band[1]
                 /\ gap.y2 = <<2 * band[1] + gap.height>>
         ELSE LET band == SharedBand(Left(A), Right(A), Left(B), Right(B))
              IN /\ Top(A) < Top(B)
                 /\ gap.y2 = <<2 * Bottom(A)>>
                 /\ gap.height = Top(B) - Bottom(A)
                 /\ gap.width = band[2] - band[1]
                 /\ gap.x2 = <<2 * band[1] + gap.width>>

\* a vertical gap frame between two layers whose vertical extents are apart
C20_Witness ==
  /\ crawlerResult.op = "gapFrame"
  /\ crawlerResult.value # null
  /\ crawlerResult.value.orientation = "vertical"
  /\ crawlerResult.value.height > 0
  /\ \A l \in Elements, r \in Elements :
       l # r => Bottom(l) < Top(r) \/ Bottom(r) < Top(l)

\* the x anchor of a top-oriented placement was corrected for left or right
\* bleed: the two tests of positionAnnotation on the inputs of the call
ClampedX ==
  LET groupWidth == placeInput.annotation.rectangle.width
      x0 == placeInput.layerFrame.x2 + (placeInput.layerFrame.width - groupWidth)
      x1 == IF x0 < 0 THEN 10 ELSE x0
  IN x0 < 0 \/ x1 + 2 * groupWidth > 2 * placeInput.layerFrame.artboardWidth

\* C19: in a top-oriented placement whose x anchor was corrected for left or
\* right bleed the diamond's x is (layerX - group.x) + (layerWidth - 6) / 2,
\* for every annotation type, whether or not y was corrected as well
C19_DiamondUnderMidpoint ==
  (/\ placed # NoCall
   /\ placed.value.status = "placed"
   /\ placeInput.orientation = "top"
   /\ ClampedX)
  => placed.value.diamond.x2
       = (placeInput.layerFrame.x2 - placed.value.group.x2)
         + (placeInput.layerFrame.width - 6)

-----------------------------------------------------------------------------
(* Properties of the stacking order and the overlap frames *)

\* the selected layer of an id
ElementOf(id) == CHOOSE l \in Elements : l.id = id

\* C21: in a result of overlapFrames() layerAId is the layer of lower relative
\* index and layerBId the one of higher relative index, in either order of
\* the selection; with equal relative indexes the result is null
C21_BackIsLayerA ==
  crawlerResult.op = "overlapFrames" =>
    /\ getRelativeIndex(selection[1]) = getRelativeIndex(selection[2])
       => crawlerResult.value = null
    /\ crawlerResult.value # null
       => /\ {crawlerResult.value.layerAId, crawlerResult.value.layerBId}
               = {selection[1].id, selection[2].id}
          /\ getRelativeIndex(ElementOf(crawlerResult.value.layerAId))
               < getRelativeIndex(ElementOf(crawlerResult.value.layerBId))

\* overlap frames of a selection that names the front layer first
C21_Witness ==
  /\ crawlerResult.op = "overlapFrames"
  /\ crawlerResult.value # null
  /\ crawlerResult.value.layerAId = selection[2].id
  /\ crawlerResult.value.layerBId = selection[1].id

\* C22: with A the back layer and B the front layer, the four frames of a
\* result of overlapFrames() are top = (B.x, A.y, B.width, B.y - A.y),
\* bottom = (B.x, B.y + B.height, B.width, A's bottom - B's bottom),
\* left = (A.x, B.y, B.x - A.x, B.height) and right = (B's right, B.y,
\* A's right - B's right, B.height) in artboard coordinates, top and bottom
\* horizontal, left and right vertical
C22_OverlapFramesGeometry ==
  (crawlerResult.op = "overlapFrames" /\ crawlerResult.value # null) =>
    LET A == ElementOf(crawlerResult.value.layerAId)
        B == ElementOf(crawlerResult.value.layerBId)
    IN /\ crawlerResult.value.top =
            [x |-> Left(B), y |-> Top(A), width |-> B.width,
             height |-> Top(B) - Top(A), orientation |-> "horizontal"]
       /\ crawlerResult.value.bottom =
            [x |-> Left(B), y |-> Bottom(B), width |-> B.width,
             height |-> Bottom(A) - Bottom(B), orientation |-> "horizontal"]
       /\ crawlerResult.value.left =
            [x |-> Left(A), y |-> Top(B), width |-> Left(B) - Left(A),
             height |-> B.height, orientation |-> "vertical"]
       /\ crawlerResult.value.right =
            [x |-> Right(B), y |-> Top(B), width |-> Right(A) - Right(B),
             height |-> B.height, orientation |-> "vertical"]

\* overlap frames of a front layer inside a group, away from the back layer's
\* left and top edges
C22_Witness ==
  /\ crawlerResult.op = "overlapFrames"
  /\ crawlerResult.value # null
  /\ crawlerResult.value.top.height > 0
  /\ crawlerResult.value.left.width > 0
  /\ Len(ElementOf(crawlerResult.value.layerBId).parents) > 1

\* C28: the relative index of an artboard is lower than that of the layers on
\* it, and two layers of one group at indexes i < j have relative indexes
\* r(i) < r(j)
C28_IndexOrderPreserved ==
  crawlerResult.op = "getRelativeIndex" =>
    /\ crawlerResult.artboard < crawlerResult.first
    /\ crawlerResult.artboard < crawlerResult.second
    /\ selection[1].index < selection[2].index
       => crawlerResult.first < crawlerResult.second
    /\ selection[1].index # selection[2].index
       => crawlerResult.first # crawlerResult.second

-----------------------------------------------------------------------------
(* Properties of updateArray *)

\* the sequence without its i-th element
Without(seq, i) == SubSeq(seq, 1, i - 1) \o SubSeq(seq, i + 1, Len(seq))

\* C27: updateArray with "remove" takes out the first entry whose id is the
\* item's and keeps the others in their order; with no such entry the array
\* is as it was
C27_RemoveFirstMatch ==
  (/\ history # <<>>
   /\ history[Len(history)].op = "updateArray"
   /\ history[Len(history)].action = "remove") =>
    LET call == history[Len(history)]
        before == call.array
        after == settings.annotatedLayers
        hits == {i \in 1 .. Len(before) : before[i].id = call.item.id}
    IN IF hits = {}
       THEN after = before
       ELSE after = Without(before, CHOOSE i \in hits : \A j \in hits : i <= j)

-----------------------------------------------------------------------------
(* Properties of the repair of the container groups *)

\* the keys of the inner groups in an entry of containerGroups
InnerKeys ==
  {setGroupKey(elementType) : elementType \in
     {"boundingBox", "component", "dimension", "spacing", "style"}}

\* the layer of an id
LayerOf(layerList, id) == CHOOSE l \in Range(layerList) : l.id = id

\* the entry of the artboard after the step: the only one, its outer group
\* and its inner group for the key in the document, the inner group inside
\* the outer group and what the call drew inside the inner group
Repaired(call, new, key) ==
  /\ new.artboardId = call.artboard.id
  /\ Live(layers', new.id) /\ Live(layers', new[key])
  /\ LayerOf(layers', new[key]).parent = new.id
  /\ \A drawn \in Range(call.groups) :
       Live(layers', drawn) => LayerOf(layers', drawn).parent = new[key]

\* C23: a call that finds the recorded outer group but not the inner group
\* of its type draws a new inner group and replaces the entry with one of
\* the same artboard and outer group and the same other inner groups; a
\* call that does not find the recorded outer group replaces the entry with
\* one of a new outer group and a new inner group; either way the groups it
\* draws into are in the document
C23_StaleEntryRebuilt ==
  [][(/\ Stepped
      /\ history'[Len(history')].artboard # null
      /\ history'[Len(history')].status = "success"
      /\ history'[Len(history')].groups # <<>>
      /\ EntriesFor(settings, history'[Len(history')].artboard.id) # {})
     => LET call == history'[Len(history')]
            key == setGroupKey(call.elementType)
            old == settings.containerGroups[
                     CHOOSE i \in EntriesFor(settings, call.artboard.id) : TRUE]
            after == EntriesFor(settings', call.artboard.id)
            new == settings'.containerGroups[CHOOSE j \in after : TRUE]
        IN /\ (Live(layers, old.id) /\ ~Live(layers, old[key]))
              => /\ Cardinality(after) = 1
                 /\ Repaired(call, new, key)
                 /\ new.id = old.id
                 /\ \A other \in InnerKeys \ {key} : new[other] = old[other]
                 /\ ~Live(layers, new[key])
           /\ ~Live(layers, old.id)
              => /\ Cardinality(after) = 1
                 /\ Repaired(call, new, key)
                 /\ ~Live(layers, new.id)
                 /\ ~Live(layers, new[key])
                 /\ \A entry \in Range(settings'.containerGroups) :
                      entry.id # old.id]_vars

\* the component inner group was deleted, and addAnnotation drew a new one
\* into the entry that still names the outer group and the dimension group
C23_Witness ==
  /\ Len(history) = 2
  /\ history[1].op = "deleteContainerGroup"
  /\ history[2].op = "addAnnotation"
  /\ history[2].status = "success"
  /\ history[2].elementType = "component"
  /\ ~Live(layers, history[1].layer)
  /\ \E i \in EntriesFor(settings, UserArtboard.id) :
       /\ Live(layers, settings.containerGroups[i].id)
       /\ Live(layers, settings.containerGroups[i].dimensionInnerGroupId)
       /\ Live(layers, settings.containerGroups[i].componentInnerGroupId)

-----------------------------------------------------------------------------
(* Properties of the overlap measurements *)

\* the annotatedSpacings records of a pair of layers and a direction
SpacingsOf(theSettings, frames, direction) ==
  IF theSettings = null THEN {}
  ELSE {record \in Range(theSettings.annotatedSpacings) :
          /\ record.layerAId = frames.layerAId
          /\ record.layerBId = frames.layerBId
          /\ record.direction = direction}

\* C24: addOverlapMeasurements draws nothing for a direction whose frame is
\* at most 2 wide or at most 2 high and leaves the records and the groups of
\* that direction as they were; a direction whose frame is more than 2 wide
\* and high, with a length on the spacing scale, gets one new group and one
\* record
C24_SmallFramesNotAnnotated ==
  [][(/\ Stepped
      /\ history'[Len(history')].op = "addOverlapMeasurements"
      /\ history'[Len(history')].status = "success")
     => LET call == history'[Len(history')]
            Small(direction) == \/ call.input[direction].width <= 2
                                \/ call.input[direction].height <= 2
            OnScale(direction) ==
              retrieveSpacingValue(GapLength(call.input[direction])) # <<>>
            Sides == {"top", "bottom", "left", "right"}
        IN /\ \A direction \in Sides :
                LET before == SpacingsOf(settings, call.input, direction)
                    after == SpacingsOf(settings', call.input, direction)
                IN /\ Small(direction)
                      => /\ after = before
                         /\ \A record \in before :
                              Live(layers', record.id) = Live(layers, record.id)
                   /\ (~Small(direction) /\ OnScale(direction))
                      => /\ Cardinality(after) = 1
                         /\ \A record \in after :
                              /\ record.id \in Range(call.groups)
                              /\ Live(layers', record.id)
                              /\ ~Live(layers, record.id)
           /\ Len(call.groups) =
                Cardinality({direction \in Sides :
                               ~Small(direction) /\ OnScale(direction)})]_vars

\* overlap frames with the left frame 2 wide and the top frame 3 high: the
\* left annotation of the earlier call stays and the top one is drawn anew
C24_Witness ==
  /\ Len(history) >= 2
  /\ history[Len(history) - 1].op = "addOverlapMeasurements"
  /\ history[Len(history) - 1].status = "success"
  /\ history[Len(history)].op = "addOverlapMeasurements"
  /\ history[Len(history)].status = "success"
  /\ history[Len(history)].input.left.width = 2
  /\ history[Len(history)].input.top.height = 3
  /\ \E record \in SpacingsOf(settings, history[Len(history)].input, "left") :
       /\ record.id \in Range(history[Len(history) - 1].groups)
       /\ Live(layers, record.id)
  /\ \E record \in SpacingsOf(settings, history[Len(history)].input, "top") :
       /\ record.id \in Range(history[Len(history)].groups)
       /\ Live(layers, record.id)

-----------------------------------------------------------------------------
(* Properties of the annotation groups and their records *)

\* the inner container groups that hold annotations
AnnotationContainers ==
  {setGroupName(elementType) : elementType \in
     {"component", "dimension", "spacing", "style"}}

\* the ids of the annotation groups in the document: the layers that lie
\* directly inside an inner container group of annotations
AnnotationGroups ==
  {layer.id : layer \in
     {l \in Range(layers) :
        \E container \in Range(layers) :
          /\ container.id = l.parent
          /\ container.name \in AnnotationContainers}}

\* the ids the three ledgers record
RecordedGroups ==
  IF settings = null THEN {}
  ELSE {record.id : record \in Range(settings.annotatedLayers)
                               \cup Range(settings.annotatedDimensions)
                               \cup Range(settings.annotatedSpacings)}

\* no container group was deleted by the user
NoDeletion ==
  \A n \in 1 .. Len(history) : history[n].op # "deleteContainerGroup"

\* C29: as long as no group is deleted from outside, the annotation groups
\* in the document are the groups that annotatedLayers, annotatedDimensions
\* and annotatedSpacings record
C29_GroupsAreTheRecorded ==
  NoDeletion => AnnotationGroups = RecordedGroups

\* three calls, the last of which replaced a group an earlier one drew, with
\* groups of two ledgers in the document
C29_Witness ==
  /\ NoDeletion
  /\ Len(history) = MaxCalls
  /\ \E n \in 1 .. Len(history) - 1 :
       \E gone \in Range(history[n].groups) : ~Live(layers, gone)
  /\ settings # null
  /\ settings.annotatedLayers # <<>>
  /\ settings.annotatedSpacings # <<>>
  /\ AnnotationGroups # {}

-----------------------------------------------------------------------------
(* Properties of the migrations *)

\* the migrations list of the settings, empty when there is none
MigrationsOf(theSettings) ==
  IF theSettings = null THEN <<>> ELSE Field(theSettings, "migrations")

\* the keys of the migrations that a call executed with status 'success'
Succeeded(ran) ==
  LET Success(r) == r.status = "success"
  IN [n \in 1 .. Len(SelectSeq(ran, Success)) |-> SelectSeq(ran, Success)[n].key]

\* C25: a call of runMigrations executes no migration whose key is older than
\* the creation of the file and none whose key is in the migrations list; it
\* executes the others oldest first, up to one that throws; and it appends to
\* the list the keys of those that returned status 'success', and no other
C25_MigrationsOnceInOrder ==
  [][history' # history =>
       LET call == history'[Len(history')]
           ran == call.ran
           before == IF MigrationsOf(settings) = undefined THEN <<>>
                     ELSE MigrationsOf(settings)
           remaining == {key \in Range(migrationKeys) :
                           /\ ~Greater(call.fileTimestamp, key)
                           /\ ~includes(before, key)}
           executed == {ran[n].key : n \in 1 .. Len(ran)}
       IN /\ \A n \in 1 .. Len(ran) : ~Greater(call.fileTimestamp, ran[n].key)
          /\ \A n \in 1 .. Len(ran) : ~includes(before, ran[n].key)
          /\ \A m, n \in 1 .. Len(ran) : m < n => Greater(ran[n].key, ran[m].key)
          /\ \A n \in 1 .. Len(ran) - 1 : ran[n].status = "success"
          /\ IF ran # <<>> /\ ran[Len(ran)].status # "success"
             THEN executed = {key \in remaining : ~Greater(key, ran[Len(ran)].key)}
             ELSE executed = remaining
          /\ settings'.migrations = before \o Succeeded(ran)]_vars

\* two calls on a file created at the time of the third migration: the first
\* executes the third and the fourth and the fifth, which throws; the second
\* executes the fifth alone, and the list holds the three in this order
C25_Witness ==
  /\ Len(history) = 2
  /\ history[1].fileTimestamp = migrationKeys[3]
  /\ history[2].fileTimestamp = migrationKeys[3]
  /\ history[1].ran = <<[key |-> migrationKeys[3], status |-> "success"],
                        [key |-> migrationKeys[2], status |-> "success"],
                        [key |-> migrationKeys[1], status |-> "threw"]>>
  /\ history[2].ran = <<[key |-> migrationKeys[1], status |-> "success"]>>
  /\ settings.migrations = <<migrationKeys[3], migrationKeys[2], migrationKeys[1]>>

\* C30: after the migrations the containerGroups of the settings hold at
\* most one entry of an outer group and at most one entry of an artboard
C30_MigratedEntriesUnique ==
  (settings # null /\ history # <<>>) =>
    \A i, j \in 1 .. Len(settings.containerGroups) :
      i # j => /\ settings.containerGroups[i].id # settings.containerGroups[j].id
               /\ settings.containerGroups[i].artboardId
                    # settings.containerGroups[j].artboardId

\* the same when no call has executed migration1565814709913
C30_UniqueWithoutSeparateDimensions ==
  (/\ settings # null
   /\ history # <<>>
   /\ \A n \in 1 .. Len(history) : \A m \in 1 .. Len(history[n].ran) :
        history[n].ran[m].key # migrationKeys[1]) =>
    \A i, j \in 1 .. Len(settings.containerGroups) :
      i # j => /\ settings.containerGroups[i].id # settings.containerGroups[j].id
               /\ settings.containerGroups[i].artboardId
                    # settings.containerGroups[j].artboardId

-----------------------------------------------------------------------------
(* Properties of calls that are not run one after the other *)

\* every call has returned
AllReturned == \A n \in 1 .. Len(history) : history[n].position = "returned"

\* each call ran from its read to its write with no other call in between
Serialized == \A n \in 1 .. Len(history) : history[n].alone

\* the group a call drew is in the document and the settings hold no record
\* of it
LostUpdate ==
  \E n \in 1 .. Len(history) :
    /\ history[n].status = "success"
    /\ Live(layers, history[n].groups[1])
    /\ \A i \in 1 .. Len(settings.annotatedLayers) :
         settings.annotatedLayers[i].id # history[n].groups[1]

\* the groups two calls drew for one layer are both in the document
TwoLiveGroups ==
  \E m, n \in 1 .. Len(history) :
    /\ m < n
    /\ history[m].status = "success" /\ history[n].status = "success"
    /\ history[m].layer = history[n].layer
    /\ Live(layers, history[m].groups[1])
    /\ Live(layers, history[n].groups[1])

\* C26: when two addAnnotation calls both read the settings before either
\* writes them, the record of the one that writes first is lost, and if they
\* annotate the same layer the layer has two groups in the document; when
\* every call runs to its end before the next starts, no record is lost and
\* no layer has two groups
C26_RaceLosesOrDuplicates ==
  AllReturned =>
    /\ Serialized => ~LostUpdate /\ ~TwoLiveGroups
    /\ (/\ Len(history) = 2
        /\ history[1].status = "success" /\ history[2].status = "success"
        /\ ~history[2].alone)
       => /\ LostUpdate
          /\ TwoLiveGroups <=> history[1].layer = history[2].layer

\* the button and the color annotated by two calls that both read before
\* either wrote: two groups in the document and one record in the settings
C26_Witness ==
  /\ AllReturned
  /\ Len(history) = 2
  /\ ~history[2].alone
  /\ history[1].layer = "L1" /\ history[2].layer = "L2"
  /\ Live(layers, history[1].groups[1])
  /\ Live(layers, history[2].groups[1])
  /\ Len(settings.annotatedLayers) = 1
  /\ LostUpdate

\* the button annotated twice by calls that both read before either wrote
C26_SameLayerTwice ==
  /\ AllReturned
  /\ Len(history) = 2
  /\ ~history[2].alone
  /\ history[1].layer = "L1" /\ history[2].layer = "L1"
  /\ TwoLiveGroups

====
